---- MODULE Spec2Model ----
(***************************************************************************)
(* Verification model of the MirrorKey secret broker (gsecret interface).  *)
(*                                                                         *)
(* Part I   - the cache stage (stages/gsecret/cache): TokenCache and       *)
(*            CacheGSecretExecutor, every handler one atomic action        *)
(*            (specification Spec).                                        *)
(* Part II  - the cache stage at lock granularity: secret_updated taken    *)
(*            one TokenCache call at a time, interleaved with a reading    *)
(*            request thread (specification SpecConc).                     *)
(* Part III - the rate-limiter stage (stages/gsecret/rate_limiter):        *)
(*            BufferQueue, BufferController worker and the request         *)
(*            threads waiting on a BufferDelay (specification SpecRL).     *)
(* Part IV  - the upstream-read stage (stages/gsecret/bws_read): the       *)
(*            forward handlers, the chain executors, BwsClient's callback  *)
(*            registration and its sync thread (specification SpecBws).    *)
(* Part V   - the generator stage (stages/gsecret/generator): secret       *)
(*            generation and get_secret_key (specification SpecGen).       *)
(* Part VI  - the parse stage (stages/gsecret/parse_secret): encoding on   *)
(*            write, parsing on read and the filtering of sync batches     *)
(*            (specification SpecParse).                                   *)
(* Part VII - the chain core (core/chain): Chain and the forward and       *)
(*            reverse executors (specification SpecChain).                 *)
(* Part VIII- assembly (core/interface, core/api): Interface.register_stage*)
(*            and ApiBuilder.load_stages (specification SpecBuild).        *)
(* Part IX  - a lookup passed down a chain of stages: the call each stage's *)
(*            get_secret_id / get_secret_key makes on the next stage        *)
(*            (specification SpecDispatch).                                 *)
(* Part X   - ApiRateLimiter of the upstream-read client: trigger and the   *)
(*            parsing of the window string (specification SpecLimiter).     *)
(* Part XI  - BwsClientController.get_client called by several threads with *)
(*            one token (specifications SpecClient and SpecClientSeq).      *)
(* Part XII - the pacing and the lifetime of BwsClient._sync_loop           *)
(*            (specifications SpecPace and SpecPaceFair).                   *)
(* Part XIII- BwsClient.kv_translater rebuilt by _sync while get_by_key     *)
(*            reads it (specification SpecKv).                              *)
(* Part XIV - CacheController: the cache stage serving the requests of two  *)
(*            tokens (specification SpecToken).                             *)
(* Part XV  - a read that missed the cache and stores the next stage's      *)
(*            answer, next to a sync update (specification SpecRace).       *)
(* Part XVI - LoadedConfig.from_yaml and the configs load_stages hands to   *)
(*            the stage builders (specification SpecLoader).                *)
(***************************************************************************)
EXTENDS Integers, Sequences, FiniteSets, TLC

VARIABLES
    token_cache,    \* TokenCache of one TokenID: [id_cache, key_cache]
    ttl_seconds,    \* CacheConfig.ttl_seconds
    invalidate_on_upstream_error, \* CacheConfig.invalidate_on_upstream_error
    now,            \* the wall clock (datetime.now / time.time), in seconds
    last,           \* the last handler that returned: what it was asked and answered
    sync,           \* Part II: the secret_updated call in progress
    reader,         \* Part II: the reading request thread
    secret_id_api_map,  \* Part III: BufferedStageClient.secret_id_api_map
    secret_key_api_map, \* Part III: BufferedStageClient.secret_key_api_map
    queue,          \* Part III: BufferQueue.queue, bucket -> FIFO of BufferDelay
    queue_order,    \* Part III: insertion order of the keys of BufferQueue.queue
    queue_has_items,\* Part III: BufferQueue.queue_has_items (Event)
    api_rate_limits,\* Part III: BufferController.api_rate_limits
    all_delays,     \* Part III: the worker's local dict all_delays
    worker,         \* Part III: position of the worker thread in _process_buffers
    signalled,      \* Part III: the BufferDelay tokens whose event is set
    req,            \* Part III: the request threads of the rate-limiter stage
    chain_len,      \* Part IV: len(chain), the number of stages of the chain
    read_stages,    \* Part IV: the indices of the chain's bws_read stages
    bws_req,        \* Part IV: the thread running a bws_read forward handler
    bws_last,       \* Part IV: the last forward handler of bws_read that ended
    sync_callbacks, \* Part IV: BwsClient.sync_callbacks
    sync_all,       \* Part IV: BwsClient.sync_all
    new_callbacks,  \* Part IV: _sync_loop's local list new_callbacks
    sync_thread,    \* Part IV: position of BwsClient.sync_thread in _sync_loop
    full_delivered, \* Part IV: the callbacks invoked with a sync from epoch
    sync_last,      \* Part IV: the last secrets_sync call: what it invoked
    gen_config,     \* Part V: GeneratorConfig of the generator stage
    gen_last,       \* Part V: the last handler of the generator that ended
    parse_config,   \* Part VI: ParseSecretConfig of the parse stage
    parse_index,    \* Part VI: the index of the parse stage in the chain
    parse_store,    \* Part VI: the value the next stage holds for the secret
    parse_last,     \* Part VI: the last handler of the parse stage that ended
    stages,         \* Part VII: Chain.stages, the list of stage instances
    chain_executor, \* Part VII: a chain executor: its kind and current_index
    yielded,        \* Part VII: what the executor's next() calls returned, in order
    copy_last,      \* Part VII: what next() of the last copy() returned
    index_last,     \* Part VII: the last get_stage_index call
    interface_stages,   \* Part VIII: Interface.stages, name -> builder
    imported_modules,   \* Part VIII: Importer.imported_modules (stage modules)
    controller_chains,  \* Part VIII: ChainController.chains, name -> Chain.stages
    load,           \* Part VIII: the load_stages call: its config and position
    register_last,  \* Part VIII: the last register_stage call
    dispatch_chain, \* Part IX: the stage of each position of the chain
    dispatch_calls, \* Part IX: the call each stage received, in chain order
    dispatch_state, \* Part IX: where the lookup is: idle, running, answered, raised
    api_rate_limiter,   \* Part X: ApiRateLimiter: max, window, remaining, reset
    trigger_last,   \* Part X: the last trigger call
    client_cache,   \* Part XI: BwsClientController._client_cache[token_hash]
    region_map,     \* Part XI: BwsClientController._region_map[token_hash]
    bws_clients,    \* Part XI: the BwsClient objects constructed, in order
    caller,         \* Part XI: the threads calling get_client
    sync_pace,      \* Part XII: delay() calls of _sync_loop against its sync calls
    kv_translater,  \* Part XIII: BwsClient.kv_translater, key -> id ("" = absent)
    id_rate_limiter,\* Part XIII: the keys of BwsClient.id_rate_limiter
    kv_sync,        \* Part XIII: the _sync call in progress
    kv_last,        \* Part XIII: the last get_by_key call
    token_caches,   \* Part XIV: CacheController.token_caches, token_id -> TokenCache
    tc_last,        \* Part XIV: the last handler of the cache stage that ended
    upstream_value, \* Part XV: the version of the secret's value the upstream holds
    race_cache,     \* Part XV: the TokenCache shared by the reader and the sync
    race_reader,    \* Part XV: the request thread of a read
    race_last,      \* Part XV: the value of the last sync batch and of the last hit
    yaml_doc,       \* Part XVI: the chains of the YAML document handed to from_yaml
    loaded_config,  \* Part XVI: LoadedConfig: stage_cfg_map and chain_stage_map
    built_chains,   \* Part XVI: the chains load_stages built, chain name -> stages
    loader_pc       \* Part XVI: idle, parsed (from_yaml done), built (load_stages done)

cacheVars == <<token_cache, ttl_seconds, invalidate_on_upstream_error, last>>
concVars  == <<sync, reader>>
rlVars    == <<secret_id_api_map, secret_key_api_map, queue, queue_order, queue_has_items, api_rate_limits, all_delays,
               worker, signalled, req>>
bwsVars   == <<chain_len, read_stages, bws_req, bws_last, sync_callbacks, sync_all,
               new_callbacks, sync_thread, full_delivered, sync_last>>
genVars   == <<gen_config, gen_last>>
parseVars == <<parse_config, parse_index, parse_store, parse_last>>
chainVars == <<stages, chain_executor, yielded, copy_last, index_last>>
buildVars == <<interface_stages, imported_modules, controller_chains, load, register_last>>
dispatchVars == <<dispatch_chain, dispatch_calls, dispatch_state>>
limiterVars == <<api_rate_limiter, trigger_last>>
clientVars == <<client_cache, region_map, bws_clients, caller>>
paceVars == <<sync_pace>>
kvVars == <<kv_translater, id_rate_limiter, kv_sync, kv_last>>
tokenVars == <<token_caches, tc_last>>
raceVars == <<upstream_value, race_cache, race_reader, race_last>>
loaderVars == <<yaml_doc, loaded_config, built_chains, loader_pc>>
lastVars == <<paceVars, kvVars, tokenVars, raceVars, loaderVars>>
lateVars == <<clientVars, lastVars>>
extraVars == <<dispatchVars, limiterVars, lateVars>>
coreVars  == <<chainVars, buildVars, extraVars>>
stageVars == <<bwsVars, genVars, parseVars, coreVars>>
vars      == <<cacheVars, now, concVars, rlVars, stageVars>>

-----------------------------------------------------------------------------
(* Bounds of the model *)

\* the clock runs from 0 to MaxTime
MaxTime == 2
\* the positive ttl_seconds the cache stage is configured with (0 is the other)
MaxTtl == 1
\* longest batch handed to secret_updated
MaxBatch == 2

\* request threads of the rate-limiter stage
MaxReqs == 2
\* RateLimiterConfig.timeout and default_delay, in clock ticks
Timeout == 2
DefaultDelay == 1
\* largest RateLimit.remaining and largest reset - now the next stage reports
MaxRemaining == 2
MaxReset == 1
\* the longest chain
MaxChain == 2
\* the largest GenerationConfig.length
MaxLength == 2
\* the longest batch handed to the parse stage's secret_updated
MaxUpdate == 2
\* the most stages added to a Chain, and the most next() calls on an executor
MaxStages == 3
MaxNext == 5
\* the most chains of an api and the most steps of a chain in a LoadedConfig
MaxChains == 2
MaxSteps == 2
\* the most digits of a rate-limit window string
MaxDigits == 2
\* the threads calling get_client with one token
MaxCallers == 2
\* the most secrets an upstream sync returns
MaxSecrets == 2
\* the versions of a secret's value the upstream goes through
MaxVersion == 3

Ids  == {"a", "b"}
Keys == {"k1", "k2"}
Vals == {"v1"}

-----------------------------------------------------------------------------
(* Data model: interfaces/gsecret/interface.py *)

\* Secret / UpdatedSecret, as far as the cache stage reads them
Secret == [key_id : Ids, key : Keys, secret : Vals]

NoSecret == [key_id |-> "", key |-> "", secret |-> ""]

\* a handler's answer, Secret | GsecretFailure: code 200 stands for a Secret
Answer(s) == [code |-> 200, secret |-> s]
GsecretFailure(code) == [code |-> code, secret |-> NoSecret]
isSecret(r) == r.code = 200

\* what the next stage may answer to a read: any Secret, "404", or another
\* failure code (500 stands for 401, 429, 500, 501, 503)
ReadAnswers == {Answer(s) : s \in Secret} \cup {GsecretFailure(404), GsecretFailure(500)}

\* the batches of secret_updated: lists of at most MaxBatch secrets; a sync
\* response lists every upstream secret once, so no id occurs twice in a batch
\* (two entries may share a key)
Batches ==
    {b \in UNION {[1..n -> Secret] : n \in 0..MaxBatch} :
        \A i, j \in DOMAIN b : b[i].key_id = b[j].key_id => i = j}

\* Part III: the request threads, the secrets they ask for and the buckets
\* (RateLimit.api_relation) the next stage reports
Reqs == 1..MaxReqs
RLIds == {"a"}
RLKeys == {"k1"}

\* Part IV: what a stage handler hands back: a Secret (code 200, named by
\* who produced it), a GsecretFailure (its code), or an exception raised
\* out of the handler (code -1, named by its type)
NoAnswer == [code |-> 0, secret |-> ""]
BwsSecret == [code |-> 200, secret |-> "bws"]
Failure(code) == [code |-> code, secret |-> ""]
Raised(type) == [code |-> 0 - 1, secret |-> type]
DownAnswers == {[code |-> 200, secret |-> "down"], Failure(404), Failure(500)}

Range(f) == {f[x] : x \in DOMAIN f}

\* every order in which Python may iterate over the set S
Orders(S) == {q \in [1..Cardinality(S) -> S] : Range(q) = S}

-----------------------------------------------------------------------------
(* TokenCache: stages/gsecret/cache/cache_controller.py *)

\* CacheEntry(secret): access_count and last_accessed are never read by the
\* stage and are left out
CacheEntry(secret, t) == [secret |-> secret, cached_at |-> t]

\* is_expired with the boundary age counted as expired
is_expired_at_ttl(entry, ttl, t) ==
    IF ttl <= 0 THEN FALSE ELSE (t - entry.cached_at) >= ttl

is_expired(entry, ttl, t) ==
    IF ttl <= 0 THEN FALSE ELSE (t - entry.cached_at) > ttl

Drop(f, x) == [y \in DOMAIN f \ {x} |-> f[y]]
Put(f, x, v) == [y \in DOMAIN f \cup {x} |-> IF y = x THEN v ELSE f[y]]

EmptyCache == [id_cache |-> <<>>, key_cache |-> <<>>]

ids(tc) == DOMAIN tc.id_cache
keys(tc) == DOMAIN tc.key_cache

\* get_by_id: the cache it leaves, whether it returns a secret, the secret,
\* and the age of the entry it found (-1 when there is none)
get_by_id(tc, key_id, ttl, t) ==
    IF key_id \notin DOMAIN tc.id_cache
    THEN [cache |-> tc, found |-> FALSE, secret |-> NoSecret, age |-> 0 - 1]
    ELSE LET entry == tc.id_cache[key_id] IN
         IF ~is_expired(entry, ttl, t)
         THEN [cache |-> tc, found |-> TRUE, secret |-> entry.secret,
               age |-> t - entry.cached_at]
         ELSE [cache |-> [id_cache |-> Drop(tc.id_cache, key_id),
                          key_cache |-> Drop(tc.key_cache, entry.secret.key)],
               found |-> FALSE, secret |-> NoSecret, age |-> t - entry.cached_at]

get_by_key(tc, key, ttl, t) ==
    IF key \notin DOMAIN tc.key_cache
    THEN [cache |-> tc, found |-> FALSE, secret |-> NoSecret, age |-> 0 - 1]
    ELSE LET entry == tc.key_cache[key] IN
         IF ~is_expired(entry, ttl, t)
         THEN [cache |-> tc, found |-> TRUE, secret |-> entry.secret,
               age |-> t - entry.cached_at]
         ELSE [cache |-> [id_cache |-> Drop(tc.id_cache, entry.secret.key_id),
                          key_cache |-> Drop(tc.key_cache, key)],
               found |-> FALSE, secret |-> NoSecret, age |-> t - entry.cached_at]

update_by_id(tc, secret, key_id, t) ==
    [tc EXCEPT !.id_cache = Put(tc.id_cache, key_id, CacheEntry(secret, t))]

update_by_key(tc, secret, key, t) ==
    [tc EXCEPT !.key_cache = Put(tc.key_cache, key, CacheEntry(secret, t))]

invalidate_by_id(tc, key_id) ==
    IF key_id \in DOMAIN tc.id_cache
    THEN [id_cache |-> Drop(tc.id_cache, key_id),
          key_cache |-> Drop(tc.key_cache, tc.id_cache[key_id].secret.key)]
    ELSE tc

invalidate_by_key(tc, key) ==
    IF key \in DOMAIN tc.key_cache
    THEN [id_cache |-> Drop(tc.id_cache, tc.key_cache[key].secret.key_id),
          key_cache |-> Drop(tc.key_cache, key)]
    ELSE tc

-----------------------------------------------------------------------------
(* CacheGSecretExecutor: stages/gsecret/cache/main.py.  Each operator is   *)
(* the handler's effect on the TokenCache; `answer` is what the next stage *)
(* returned.                                                               *)

\* get_secret_id: the cache it leaves, what it returns, whether it called the
\* next stage (fwd) and the age of the entry its lookup found
cache_get_secret_id(tc, key_id, answer, ttl, inval, t) ==
    LET got == get_by_id(tc, key_id, ttl, t) IN
    IF got.found
    THEN [cache |-> got.cache, result |-> Answer(got.secret), fwd |-> FALSE,
          age |-> got.age]
    ELSE [cache |-> IF isSecret(answer)
                    THEN update_by_key(got.cache, answer.secret, answer.secret.key, t)
                    ELSE IF answer.code = 404 THEN invalidate_by_id(got.cache, key_id)
                    ELSE IF inval THEN invalidate_by_id(got.cache, key_id)
                    ELSE got.cache,
          result |-> answer, fwd |-> TRUE, age |-> got.age]

\* get_secret_key storing the answer under the requested key
cache_get_secret_key_requested(tc, key, answer, ttl, inval, t) ==
    LET got == get_by_key(tc, key, ttl, t) IN
    IF got.found
    THEN [cache |-> got.cache, result |-> Answer(got.secret), fwd |-> FALSE,
          age |-> got.age]
    ELSE [cache |-> IF isSecret(answer)
                    THEN update_by_key(got.cache, answer.secret, key, t)
                    ELSE invalidate_by_key(got.cache, key),
          result |-> answer, fwd |-> TRUE, age |-> got.age]

cache_get_secret_key(tc, key, answer, ttl, inval, t) ==
    LET got == get_by_key(tc, key, ttl, t) IN
    IF got.found
    THEN [cache |-> got.cache, result |-> Answer(got.secret), fwd |-> FALSE,
          age |-> got.age]
    ELSE [cache |-> IF isSecret(answer)
                    THEN update_by_key(got.cache, answer.secret, answer.secret.key, t)
                    ELSE IF answer.code = 404 THEN invalidate_by_key(got.cache, key)
                    ELSE IF inval THEN invalidate_by_key(got.cache, key)
                    ELSE got.cache,
          result |-> answer, fwd |-> TRUE, age |-> got.age]

\* write_secret storing the answer under its key only
cache_write_secret_by_key_only(tc, answer, t) ==
    IF isSecret(answer)
    THEN update_by_key(tc, answer.secret, answer.secret.key, t)
    ELSE tc

\* write_secret: what the handler returns; has_next tells whether next.next()
\* handed out a stage, answer is what that stage returned
cache_write_secret_result(has_next, answer) ==
    IF has_next THEN answer ELSE GsecretFailure(501)

\* write_secret: the TokenCache after the next stage answered
cache_write_secret(tc, answer, t) ==
    IF isSecret(answer)
    THEN update_by_id(update_by_key(tc, answer.secret, answer.secret.key, t),
                      answer.secret, answer.secret.key_id, t)
    ELSE tc

\* secret_updated, the loop over the batch: lines 139-143
RECURSIVE upsert_batch(_, _, _)
upsert_batch(tc, secrets, t) ==
    IF secrets = <<>> THEN tc
    ELSE upsert_batch(
            update_by_key(update_by_id(tc, Head(secrets), Head(secrets).key_id, t),
                          Head(secrets), Head(secrets).key, t),
            Tail(secrets), t)

batch_ids(secrets) == {secrets[i].key_id : i \in DOMAIN secrets}
batch_keys(secrets) == {secrets[i].key : i \in DOMAIN secrets}

\* secret_updated, the loops over the stale sets: lines 146-149
RECURSIVE invalidate_ids(_, _)
invalidate_ids(tc, order) ==
    IF order = <<>> THEN tc
    ELSE invalidate_ids(invalidate_by_id(tc, Head(order)), Tail(order))

\* secret_updated without its loop over stale_keys
invalidate_keys_skipped(tc, order) == tc

RECURSIVE invalidate_keys(_, _)
invalidate_keys(tc, order) ==
    IF order = <<>> THEN tc
    ELSE invalidate_keys(invalidate_by_key(tc, Head(order)), Tail(order))

\* the sets stale_ids and stale_keys that secret_updated computes once the
\* batch is stored in tc
stale_ids_of(tc, secrets) == ids(tc) \ batch_ids(secrets)
stale_keys_of(tc, secrets) == keys(tc) \ batch_keys(secrets)

\* secret_updated on the TokenCache; id_order and key_order are the orders in
\* which the two stale sets are iterated
cache_secret_updated(tc, secrets, t, id_order, key_order) ==
    invalidate_keys(invalidate_ids(upsert_batch(tc, secrets, t), id_order), key_order)

-----------------------------------------------------------------------------
(* Part I: the handlers of the cache stage, one request at a time *)

\* the handler that returned last: its name, and for secret_updated the batch
\* and the stale sets it computed; for a read, whether it called the next
\* stage and the age of the entry its lookup found (-1: no entry)
NoLast == [op |-> "none", batch |-> <<>>, stale_ids |-> {}, stale_keys |-> {},
           fwd |-> FALSE, age |-> 0 - 1, answer |-> GsecretFailure(0),
           result |-> GsecretFailure(0)]

CacheInit ==
    /\ token_cache = EmptyCache
    /\ ttl_seconds \in {0, MaxTtl}
    /\ invalidate_on_upstream_error \in BOOLEAN
    /\ last = NoLast

\* CacheGSecretExecutor.get_secret_id, the next stage answering `answer`
GetSecretId(key_id, answer) ==
    LET r == cache_get_secret_id(token_cache, key_id, answer, ttl_seconds,
                                 invalidate_on_upstream_error, now) IN
    /\ token_cache' = r.cache
    /\ last' = [NoLast EXCEPT !.op = "get_secret_id", !.fwd = r.fwd,
                              !.age = r.age]
    /\ UNCHANGED <<ttl_seconds, invalidate_on_upstream_error, now>>

\* CacheGSecretExecutor.get_secret_key
GetSecretKey(key, answer) ==
    LET r == cache_get_secret_key(token_cache, key, answer, ttl_seconds,
                                  invalidate_on_upstream_error, now) IN
    /\ token_cache' = r.cache
    /\ last' = [NoLast EXCEPT !.op = "get_secret_key", !.fwd = r.fwd,
                              !.age = r.age]
    /\ UNCHANGED <<ttl_seconds, invalidate_on_upstream_error, now>>

\* CacheGSecretExecutor.write_secret of WriteSecret{key, ...}: the next stage
\* answers the written Secret under some id, or a failure
WriteSecret(key, answer) ==
    /\ isSecret(answer) => answer.secret.key = key
    /\ token_cache' = cache_write_secret(token_cache, answer, now)
    /\ last' = [NoLast EXCEPT !.op = "write_secret", !.fwd = TRUE, !.answer = answer,
                              !.result = cache_write_secret_result(TRUE, answer)]
    /\ UNCHANGED <<ttl_seconds, invalidate_on_upstream_error, now>>

\* CacheGSecretExecutor.write_secret, the cache stage being the last stage of
\* the chain
WriteSecretNoNext(key) ==
    /\ last' = [NoLast EXCEPT !.op = "write_secret", !.fwd = FALSE,
                              !.result = cache_write_secret_result(FALSE, GsecretFailure(0))]
    /\ UNCHANGED <<token_cache, ttl_seconds, invalidate_on_upstream_error, now>>

\* CacheGSecretExecutor.secret_updated
SecretUpdated(secrets) ==
    LET stored == upsert_batch(token_cache, secrets, now)
        stale_ids == stale_ids_of(stored, secrets)
        stale_keys == stale_keys_of(stored, secrets)
    IN  \E id_order \in Orders(stale_ids), key_order \in Orders(stale_keys) :
          /\ token_cache' = invalidate_keys(invalidate_ids(stored, id_order), key_order)
          /\ last' = [NoLast EXCEPT !.op = "secret_updated", !.batch = secrets,
                         !.stale_ids = stale_ids, !.stale_keys = stale_keys]
          /\ UNCHANGED <<ttl_seconds, invalidate_on_upstream_error, now>>

\* the clock advances
Tick ==
    /\ now < MaxTime
    /\ now' = now + 1
    /\ UNCHANGED cacheVars

\* Part II and Part III at rest
SyncIdle == [pc |-> "idle", batch |-> <<>>, i |-> 0, stale_ids |-> {},
             stale_keys |-> {}, pre |-> EmptyCache, clean |-> TRUE]
ReaderIdle == [pc |-> "idle", key_id |-> "", key |-> "", secret |-> NoSecret]

ConcAtRest == sync = SyncIdle /\ reader = ReaderIdle

WorkerIdle == [pc |-> "wait_for_items", min_api |-> "", timer |-> 0]
RequestIdle == [pc |-> "start", kind |-> "", name |-> "", timer |-> 0, woke |-> ""]

RLAtRest ==
    /\ secret_id_api_map = <<>> /\ secret_key_api_map = <<>>
    /\ queue = <<>> /\ queue_order = <<>> /\ queue_has_items = FALSE
    /\ api_rate_limits = <<>> /\ all_delays = <<>> /\ worker = WorkerIdle
    /\ signalled = {} /\ req = [r \in Reqs |-> RequestIdle]

BwsReqIdle == [pc |-> "idle", stage |-> 0, op |-> "", name |-> ""]
BwsNoLast == [op |-> "none", stage |-> 0, outcome |-> "", has_next |-> FALSE,
              answer |-> NoAnswer, result |-> NoAnswer, called |-> <<>>]
SyncNotStarted == [pc |-> "not_started", k |-> 0]
NoSyncLast == [stage |-> 0 - 1, invoked |-> <<>>, raised |-> FALSE]

BwsAtRest ==
    /\ chain_len = 1 /\ read_stages = {0}
    /\ bws_req = BwsReqIdle /\ bws_last = BwsNoLast
    /\ sync_callbacks = <<>> /\ sync_all = <<>> /\ new_callbacks = <<>>
    /\ sync_thread = SyncNotStarted /\ full_delivered = {} /\ sync_last = NoSyncLast

\* GenerationConfig() and GeneratorConfig() with the classes of the model
GenDefaultConfig ==
    [length |-> 1, include_uppercase |-> TRUE, include_lowercase |-> TRUE,
     include_numbers |-> TRUE, include_symbols |-> FALSE, custom_charset |-> <<>>,
     exclude_ambiguous |-> FALSE, exclude_similar |-> FALSE, exclude_chars |-> <<>>,
     overwrite_existing |-> FALSE]
NotGenerated == [ran |-> FALSE, raised |-> FALSE, value |-> <<>>]
GenNoLast == [op |-> "none", has_next |-> FALSE, probe |-> NoAnswer, calls |-> <<>>,
              generated |-> NotGenerated, result |-> NoAnswer]

GenAtRest == gen_config = GenDefaultConfig /\ gen_last = GenNoLast

\* ParseSecretConfig()
ParseDefaultConfig ==
    [encode_on_write |-> "yaml", parse_on_read |-> "auto", parse_errors_as_string |-> TRUE]
\* no value: nothing written, nothing stored
NoValue == [t |-> "none", v |-> <<>>]
PFailure(code) == [code |-> code, value |-> NoValue]
PSecret(value) == [code |-> 200, value |-> value]
ParseNoLast == [op |-> "none", written |-> NoValue, batch |-> <<>>,
                forwarded |-> <<>>, called |-> FALSE, result |-> PFailure(0)]

ParseAtRest ==
    /\ parse_config = ParseDefaultConfig /\ parse_index = 0
    /\ parse_store = NoValue /\ parse_last = ParseNoLast

\* no executor created yet
NoExecutor == [kind |-> "none", created_with |-> 0, current_index |-> 0]
NoCopy == [called |-> FALSE, result |-> 0, original |-> 0]
NoIndex == [op |-> "none", i |-> 0, stage |-> "", result |-> 0, raised |-> FALSE]

\* Chain.__init__: no stage; no executor, no call yet
ChainAtRest ==
    /\ stages = <<>> /\ chain_executor = NoExecutor /\ yielded = <<>>
    /\ copy_last = NoCopy /\ index_last = NoIndex

\* load_stages not called
LoadIdle == [pc |-> "idle", config |-> <<>>, a |-> 0, c |-> 0, k |-> 0, chain |-> <<>>]
NoRegister == [name |-> "", stage |-> "", raised |-> "", before |-> <<>>]

\* Interface.__init__, Importer.__init__, ChainController.__init__
BuildAtRest ==
    /\ interface_stages = <<>> /\ imported_modules = {} /\ controller_chains = <<>>
    /\ load = LoadIdle /\ register_last = NoRegister

\* no chain dispatching a lookup
DispatchAtRest == dispatch_chain = <<>> /\ dispatch_calls = <<>> /\ dispatch_state = "idle"

\* ApiRateLimiter.__init__ at time 0; trigger not called
NewLimiter(at) == [max |-> 0, window |-> 0, remaining |-> 0, reset |-> at]
NoTrigger == [called |-> FALSE, window |-> <<>>, remaining |-> 0, at |-> 0,
              before |-> NewLimiter(0)]
LimiterAtRest == api_rate_limiter = NewLimiter(0) /\ trigger_last = NoTrigger

\* a thread outside get_client; at the end of a call `returned` is the client
\* the call returns (0: none) and `raised` the exception it ends with
CallerIdle == [pc |-> "idle", callback |-> 0, region |-> "", new |-> 0, client |-> 0,
               added |-> FALSE, returned |-> 0, raised |-> ""]

\* BwsClientController.__init__: both dicts empty (0 and "" stand for a
\* missing key); no client constructed
ClientAtRest ==
    /\ client_cache = 0 /\ region_map = "" /\ bws_clients = <<>>
    /\ caller = [c \in 1..MaxCallers |-> CallerIdle]

\* Part XII at rest: no sync was issued yet
PacedIdle == [delayed |-> TRUE, paced |-> TRUE]
PaceAtRest == sync_pace = PacedIdle

\* Part XIII at rest: a new BwsClient, no sync and no lookup yet
KvEmpty == [key \in Keys |-> ""]
KvSyncIdle == [pc |-> "idle", secrets |-> <<>>, i |-> 0, before |-> KvEmpty]
KvNoLast == [key |-> "", secret_id |-> "", rebuilding |-> FALSE, before |-> "", after |-> ""]
KvAtRest ==
    /\ kv_translater = KvEmpty /\ id_rate_limiter = {}
    /\ kv_sync = KvSyncIdle /\ kv_last = KvNoLast

\* Part XIV at rest: a new CacheController, no request yet
TcNoLast == [op |-> "none", token |-> "", token_id |-> "", result |-> GsecretFailure(0),
             others_kept |-> TRUE]
TokenAtRest == token_caches = <<>> /\ tc_last = TcNoLast

\* Part XV at rest: an empty TokenCache, the upstream at its first version
RaceReaderIdle == [pc |-> "idle", op |-> "", answer |-> GsecretFailure(0)]
RaceNoLast == [batch_value |-> 0, hit_value |-> 0]
RaceAtRest ==
    /\ upstream_value = 1 /\ race_cache = EmptyCache
    /\ race_reader = RaceReaderIdle /\ race_last = RaceNoLast

\* Part XVI at rest: no document read yet
NotLoaded == [stage_cfg_map |-> <<>>, chain_stage_map |-> <<>>]
LoaderAtRest ==
    /\ yaml_doc = <<>> /\ loaded_config = NotLoaded
    /\ built_chains = <<>> /\ loader_pc = "idle"

LastAtRest == PaceAtRest /\ KvAtRest /\ TokenAtRest /\ RaceAtRest /\ LoaderAtRest
LateAtRest == ClientAtRest /\ LastAtRest

ExtraAtRest == DispatchAtRest /\ LimiterAtRest /\ LateAtRest

CoreAtRest == ChainAtRest /\ BuildAtRest /\ ExtraAtRest

StagesAtRest == BwsAtRest /\ GenAtRest /\ ParseAtRest /\ CoreAtRest

Init ==
    /\ CacheInit
    /\ now = 0
    /\ ConcAtRest
    /\ RLAtRest
    /\ StagesAtRest

Next ==
    \/ \E key_id \in Ids, answer \in ReadAnswers :
          GetSecretId(key_id, answer) /\ UNCHANGED <<concVars, rlVars, stageVars>>
    \/ \E key \in Keys, answer \in ReadAnswers :
          GetSecretKey(key, answer) /\ UNCHANGED <<concVars, rlVars, stageVars>>
    \/ \E key \in Keys, answer \in ReadAnswers :
          WriteSecret(key, answer) /\ UNCHANGED <<concVars, rlVars, stageVars>>
    \/ \E key \in Keys :
          WriteSecretNoNext(key) /\ UNCHANGED <<concVars, rlVars, stageVars>>
    \/ \E secrets \in Batches :
          SecretUpdated(secrets) /\ UNCHANGED <<concVars, rlVars, stageVars>>
    \/ Tick /\ UNCHANGED <<concVars, rlVars, stageVars>>

Spec == Init /\ [][Next]_vars

-----------------------------------------------------------------------------
(* Part I: properties of the cache stage *)

\* the answer an identical read, issued in the state reached, would get if
\* the next stage failed: it is a Secret only when the cache serves it
reread_id(key_id) ==
    cache_get_secret_id(token_cache', key_id, GsecretFailure(500), ttl_seconds',
                        invalidate_on_upstream_error', now')
reread_key(key) ==
    cache_get_secret_key(token_cache', key, GsecretFailure(500), ttl_seconds',
                         invalidate_on_upstream_error', now')

\* C1: when get_secret_id(a) (resp. get_secret_key(k)) misses the cache and
\* the next stage answers with the Secret of that id (resp. key), an identical
\* read issued right afterwards is answered with the same Secret from the
\* cache, without calling the next stage.
C1_RepeatedReadServedFromCache ==
    [][/\ \A a \in Ids, s \in Secret :
            (/\ s.key_id = a
             /\ ~get_by_id(token_cache, a, ttl_seconds, now).found
             /\ GetSecretId(a, Answer(s)))
            => (~reread_id(a).fwd /\ reread_id(a).result = Answer(s))
       /\ \A k \in Keys, s \in Secret :
            (/\ s.key = k
             /\ ~get_by_key(token_cache, k, ttl_seconds, now).found
             /\ GetSecretKey(k, Answer(s)))
            => (~reread_key(k).fwd /\ reread_key(k).result = Answer(s))
      ]_vars

\* a batch in which no key occurs twice either
distinct_keys(secrets) ==
    \A i, j \in DOMAIN secrets : secrets[i].key = secrets[j].key => i = j

holds_secret(tc, s) ==
    /\ s.key_id \in ids(tc) /\ tc.id_cache[s.key_id].secret = s
    /\ s.key \in keys(tc) /\ tc.key_cache[s.key].secret = s

\* C2: after secret_updated(batch) returns, every secret of the batch (its
\* ids and keys pairwise distinct) is present in both mappings, id_cache
\* under its key_id and key_cache under its key, whatever the cache held.
C2_SyncStoresEveryBatchEntry ==
    (last.op = "secret_updated" /\ distinct_keys(last.batch))
        => \A i \in DOMAIN last.batch : holds_secret(token_cache, last.batch[i])

\* C3: after secret_updated(batch) returns, every id that is not the key_id
\* of a batch entry is absent from id_cache and every key that is not the key
\* of a batch entry is absent from key_cache.
C3_SyncRemovesEverythingElse ==
    last.op = "secret_updated"
        => /\ ids(token_cache) \subseteq batch_ids(last.batch)
           /\ keys(token_cache) \subseteq batch_keys(last.batch)

\* C3 happens: a sync found stale ids and stale keys, and left batch entries
C3_Witness ==
    /\ last.op = "secret_updated"
    /\ last.stale_ids # {} /\ last.stale_keys # {}
    /\ ids(token_cache) # {} /\ keys(token_cache) # {}

\* C4: when the next stage answers get_secret_id(a) with a 404, the cache
\* stage returns that failure and afterwards neither mapping holds an entry
\* of the secret with id a; symmetrically for get_secret_key(k) and the
\* secret with key k.
C4_NotFoundInvalidatesBothMappings ==
    [][/\ \A a \in Ids :
            (/\ ~get_by_id(token_cache, a, ttl_seconds, now).found
             /\ GetSecretId(a, GsecretFailure(404)))
            => /\ a \notin ids(token_cache')
               /\ \A k \in keys(token_cache') :
                     token_cache'.key_cache[k].secret.key_id # a
       /\ \A k \in Keys :
            (/\ ~get_by_key(token_cache, k, ttl_seconds, now).found
             /\ GetSecretKey(k, GsecretFailure(404)))
            => /\ k \notin keys(token_cache')
               /\ \A a \in ids(token_cache') :
                     token_cache'.id_cache[a].secret.key # k
      ]_vars

\* C5: in every state a handler leaves, each entry of id_cache has an entry
\* of key_cache under its secret's key holding the same secret, and each
\* entry of key_cache has an entry of id_cache under its secret's key_id
\* holding the same secret.
C5_MappingsBiConsistent ==
    /\ \A a \in ids(token_cache) :
          LET s == token_cache.id_cache[a].secret IN
          s.key \in keys(token_cache) /\ token_cache.key_cache[s.key].secret = s
    /\ \A k \in keys(token_cache) :
          LET s == token_cache.key_cache[k].secret IN
          s.key_id \in ids(token_cache) /\ token_cache.id_cache[s.key_id].secret = s

\* C6: an entry stored under id i in id_cache holds a secret whose key_id is
\* i, and an entry stored under key k in key_cache holds a secret whose key
\* is k.
C6_EntriesIndexedByTheirOwnIdAndKey ==
    /\ \A a \in ids(token_cache) : token_cache.id_cache[a].secret.key_id = a
    /\ \A k \in keys(token_cache) : token_cache.key_cache[k].secret.key = k

\* C6 happens: a key read was answered by the next stage and the two mappings
\* hold different secrets for one key
C6_Witness ==
    /\ last.op = "get_secret_key" /\ last.fwd
    /\ \E a \in ids(token_cache) :
          LET k == token_cache.id_cache[a].secret.key IN
          k \in keys(token_cache) /\ token_cache.key_cache[k].secret.key_id # a

\* C8: a read that finds a cached entry is answered from the cache, without
\* calling the next stage, exactly when ttl_seconds = 0 or the entry's age
\* now - cached_at is at most ttl_seconds; when the age exceeds a positive
\* ttl_seconds the read calls the next stage.
C8_ReadHonoursTtl ==
    (last.op \in {"get_secret_id", "get_secret_key"} /\ last.age >= 0)
        => (last.fwd <=> (ttl_seconds > 0 /\ last.age > ttl_seconds))

\* C8 happens: a read found an entry older than a positive ttl_seconds and
\* called the next stage
C8_Witness ==
    /\ last.op \in {"get_secret_id", "get_secret_key"}
    /\ ttl_seconds > 0 /\ last.age > ttl_seconds /\ last.fwd

\* the entries of every secret other than the one with id key_id are in
\* `after` as they are in `before`, and the secret key_id is in neither
\* mapping of `after`
evicts_only(before, after, key_id) ==
    /\ \A x \in ids(after) : after.id_cache[x].secret.key_id # key_id
    /\ \A k \in keys(after) : after.key_cache[k].secret.key_id # key_id
    /\ \A x \in ids(before) :
          before.id_cache[x].secret.key_id # key_id
              => x \in ids(after) /\ after.id_cache[x] = before.id_cache[x]
    /\ \A k \in keys(before) :
          before.key_cache[k].secret.key_id # key_id
              => k \in keys(after) /\ after.key_cache[k] = before.key_cache[k]

\* C29: expiry eviction touches only the expired secret: a get_by_id or
\* get_by_key that finds an expired entry of secret s leaves s in neither
\* mapping and leaves every entry of every other secret where it was, also
\* when another secret is cached under the same key.
C29_ExpiryEvictsOnlyTheExpired ==
    /\ \A key_id \in ids(token_cache) :
          is_expired(token_cache.id_cache[key_id], ttl_seconds, now)
              => evicts_only(token_cache,
                             get_by_id(token_cache, key_id, ttl_seconds, now).cache,
                             token_cache.id_cache[key_id].secret.key_id)
    /\ \A key \in keys(token_cache) :
          is_expired(token_cache.key_cache[key], ttl_seconds, now)
              => evicts_only(token_cache,
                             get_by_key(token_cache, key, ttl_seconds, now).cache,
                             token_cache.key_cache[key].secret.key_id)

\* C30: the cache write path: a write_secret the next stage answers with a
\* Secret s leaves s under id_cache[s.key_id] and under key_cache[s.key] and
\* returns s; one it answers with a failure leaves the TokenCache as it was
\* and returns that failure; with no next stage the handler returns a 501
\* failure.
C30_CacheWritePath ==
    [][(last'.op = "write_secret" /\ now' = now) =>
          IF ~last'.fwd
          THEN last'.result = GsecretFailure(501)
          ELSE /\ last'.result = last'.answer
               /\ IF isSecret(last'.answer)
                  THEN LET s == last'.answer.secret IN
                       /\ s.key_id \in ids(token_cache')
                       /\ token_cache'.id_cache[s.key_id] = CacheEntry(s, now')
                       /\ s.key \in keys(token_cache')
                       /\ token_cache'.key_cache[s.key] = CacheEntry(s, now')
                  ELSE token_cache' = token_cache]_vars

\* a write answered with a Secret whose id and key both held another entry,
\* cached at an earlier time
C30_Witness ==
    /\ last.op = "write_secret" /\ last.fwd /\ isSecret(last.result)
    /\ now > 0
    /\ token_cache.id_cache[last.result.secret.key_id] = CacheEntry(last.result.secret, now)
    /\ token_cache.key_cache[last.result.secret.key] = CacheEntry(last.result.secret, now)
    /\ \E x \in ids(token_cache) : token_cache.id_cache[x].cached_at < now

-----------------------------------------------------------------------------
(* Part II: the cache stage at the granularity of the TokenCache lock.     *)
(* secret_updated runs on the sync thread and takes the lock once per      *)
(* TokenCache call; a request thread reads or writes through the stage     *)
(* meanwhile.  The interleavings are explored at one clock time.           *)

ConcInit ==
    /\ token_cache = EmptyCache
    /\ ttl_seconds = MaxTtl
    /\ invalidate_on_upstream_error = TRUE
    /\ last = NoLast
    /\ now = 0
    /\ ConcAtRest
    /\ RLAtRest
    /\ StagesAtRest

\* whether a step of the request thread changes the cache under a running sync
Disturbs(tc) == sync.pc # "idle" /\ tc # token_cache

\* sync.pre and sync.clean only serve to state C7: pre is the cache when
\* secret_updated began, kept while no request has changed the cache since
sync_after_request(tc) ==
    IF Disturbs(tc) THEN [sync EXCEPT !.clean = FALSE, !.pre = EmptyCache] ELSE sync

\* secret_updated is called with the batch `secrets`: main.py line 136
SyncStart(secrets) ==
    /\ sync.pc = "idle"
    /\ sync' = [SyncIdle EXCEPT
                  !.pc = IF secrets = <<>> THEN "ids" ELSE "update_by_id",
                  !.batch = secrets, !.i = 1, !.pre = token_cache]
    /\ UNCHANGED <<token_cache, reader>>

\* token_cache.update_by_id(secret, secret.key_id): line 142
SyncUpdateById ==
    /\ sync.pc = "update_by_id"
    /\ token_cache' = update_by_id(token_cache, sync.batch[sync.i],
                                   sync.batch[sync.i].key_id, now)
    /\ sync' = [sync EXCEPT !.pc = "update_by_key"]
    /\ UNCHANGED reader

\* token_cache.update_by_key(secret, secret.key): line 143
SyncUpdateByKey ==
    /\ sync.pc = "update_by_key"
    /\ token_cache' = update_by_key(token_cache, sync.batch[sync.i],
                                    sync.batch[sync.i].key, now)
    /\ sync' = IF sync.i < Len(sync.batch)
               THEN [sync EXCEPT !.pc = "update_by_id", !.i = sync.i + 1]
               ELSE [sync EXCEPT !.pc = "ids"]
    /\ UNCHANGED reader

\* stale_ids = token_cache.ids - ids: line 144
SyncStaleIds ==
    /\ sync.pc = "ids"
    /\ sync' = [sync EXCEPT !.pc = "keys",
                            !.stale_ids = stale_ids_of(token_cache, sync.batch)]
    /\ UNCHANGED <<token_cache, reader>>

\* stale_keys = token_cache.keys - keys: line 145
SyncStaleKeys ==
    /\ sync.pc = "keys"
    /\ sync' = [sync EXCEPT !.pc = "invalidate",
                            !.stale_keys = stale_keys_of(token_cache, sync.batch)]
    /\ UNCHANGED <<token_cache, reader>>

\* token_cache.invalidate_by_id(stale_id), in any order of the set: line 147
SyncInvalidateId ==
    /\ sync.pc = "invalidate"
    /\ \E stale_id \in sync.stale_ids :
          /\ token_cache' = invalidate_by_id(token_cache, stale_id)
          /\ sync' = [sync EXCEPT !.stale_ids = sync.stale_ids \ {stale_id}]
    /\ UNCHANGED reader

\* token_cache.invalidate_by_key(stale_key), after the stale ids: line 149
SyncInvalidateKey ==
    /\ sync.pc = "invalidate"
    /\ sync.stale_ids = {}
    /\ \E stale_key \in sync.stale_keys :
          /\ token_cache' = invalidate_by_key(token_cache, stale_key)
          /\ sync' = [sync EXCEPT !.stale_keys = sync.stale_keys \ {stale_key}]
    /\ UNCHANGED reader

\* secret_updated hands the batch to the next reverse stage and returns
SyncReturn ==
    /\ sync.pc = "invalidate"
    /\ sync.stale_ids = {} /\ sync.stale_keys = {}
    /\ sync' = SyncIdle
    /\ UNCHANGED <<token_cache, reader>>

\* get_secret_id, the lookup token_cache.get_by_id: main.py line 56
RequestLookupId(key_id) ==
    LET got == get_by_id(token_cache, key_id, ttl_seconds, now) IN
    /\ reader.pc = "idle"
    /\ token_cache' = got.cache
    /\ reader' = IF got.found
                 THEN [ReaderIdle EXCEPT !.pc = "hit"]
                 ELSE [ReaderIdle EXCEPT !.pc = "fetch_id", !.key_id = key_id]
    /\ sync' = sync_after_request(got.cache)

\* get_secret_key, the lookup token_cache.get_by_key: line 82
RequestLookupKey(key) ==
    LET got == get_by_key(token_cache, key, ttl_seconds, now) IN
    /\ reader.pc = "idle"
    /\ token_cache' = got.cache
    /\ reader' = IF got.found
                 THEN [ReaderIdle EXCEPT !.pc = "hit"]
                 ELSE [ReaderIdle EXCEPT !.pc = "fetch_key", !.key = key]
    /\ sync' = sync_after_request(got.cache)

\* the read returns the cached secret: lines 57-58, 83-84
RequestHitReturn ==
    /\ reader.pc = "hit"
    /\ reader' = ReaderIdle
    /\ UNCHANGED <<token_cache, sync>>

\* get_secret_id after the miss: the next stage answers and the cache is
\* updated or invalidated: lines 61-72
RequestFetchId(answer) ==
    LET tc == IF isSecret(answer)
              THEN update_by_key(token_cache, answer.secret, answer.secret.key, now)
              ELSE IF answer.code = 404 \/ invalidate_on_upstream_error
                   THEN invalidate_by_id(token_cache, reader.key_id)
                   ELSE token_cache
    IN  /\ reader.pc = "fetch_id"
        /\ token_cache' = tc
        /\ reader' = ReaderIdle
        /\ sync' = sync_after_request(tc)

\* get_secret_key after the miss: lines 87-99
RequestFetchKey(answer) ==
    LET tc == IF isSecret(answer)
              THEN update_by_key(token_cache, answer.secret, answer.secret.key, now)
              ELSE IF answer.code = 404 \/ invalidate_on_upstream_error
                   THEN invalidate_by_key(token_cache, reader.key)
                   ELSE token_cache
    IN  /\ reader.pc = "fetch_key"
        /\ token_cache' = tc
        /\ reader' = ReaderIdle
        /\ sync' = sync_after_request(tc)

\* write_secret: the next stage answered the written Secret: lines 114-119
RequestWrite(key, answer) ==
    /\ reader.pc = "idle"
    /\ isSecret(answer) /\ answer.secret.key = key
    /\ reader' = [ReaderIdle EXCEPT !.pc = "write_by_key", !.key = key,
                                    !.secret = answer.secret]
    /\ UNCHANGED <<token_cache, sync>>

\* the Secret the pending write_secret got from the next stage
written == reader.secret

\* write_secret: token_cache.update_by_key(result, result.key): line 121
RequestWriteByKey ==
    LET tc == update_by_key(token_cache, written, written.key, now) IN
    /\ reader.pc = "write_by_key"
    /\ token_cache' = tc
    /\ reader' = [reader EXCEPT !.pc = "write_by_id"]
    /\ sync' = sync_after_request(tc)

\* write_secret: token_cache.update_by_id(result, result.key_id): line 122
RequestWriteById ==
    LET tc == update_by_id(token_cache, written, written.key_id, now) IN
    /\ reader.pc = "write_by_id"
    /\ token_cache' = tc
    /\ reader' = ReaderIdle
    /\ sync' = sync_after_request(tc)

concFrame == UNCHANGED <<ttl_seconds, invalidate_on_upstream_error, last, now, rlVars, stageVars>>

ConcNext ==
    \/ \E secrets \in Batches : SyncStart(secrets) /\ concFrame
    \/ SyncUpdateById /\ concFrame
    \/ SyncUpdateByKey /\ concFrame
    \/ SyncStaleIds /\ concFrame
    \/ SyncStaleKeys /\ concFrame
    \/ SyncInvalidateId /\ concFrame
    \/ SyncInvalidateKey /\ concFrame
    \/ SyncReturn /\ concFrame
    \/ \E key_id \in Ids : RequestLookupId(key_id) /\ concFrame
    \/ \E key \in Keys : RequestLookupKey(key) /\ concFrame
    \/ RequestHitReturn /\ concFrame
    \/ \E answer \in ReadAnswers : RequestFetchId(answer) /\ concFrame
    \/ \E answer \in ReadAnswers : RequestFetchKey(answer) /\ concFrame
    \/ \E key \in Keys, answer \in ReadAnswers : RequestWrite(key, answer) /\ concFrame
    \/ RequestWriteByKey /\ concFrame
    \/ RequestWriteById /\ concFrame

SpecConc == ConcInit /\ [][ConcNext]_vars

\* the caches secret_updated(secrets) leaves when nothing else touches tc
sync_outcomes(tc, secrets, t) ==
    LET stored == upsert_batch(tc, secrets, t) IN
    {invalidate_keys(invalidate_ids(stored, id_order), key_order) :
        id_order \in Orders(stale_ids_of(stored, secrets)),
        key_order \in Orders(stale_keys_of(stored, secrets))}

\* C7: a read whose cache lookup runs while secret_updated(batch) is under
\* way (nothing but that call having changed the cache since it began) looks
\* into the cache as it was before the call or as the whole call leaves it,
\* never into a state in between.
C7_ReadsSeeWholeBatches ==
    [][(/\ reader.pc = "idle"
        /\ reader'.pc \in {"hit", "fetch_id", "fetch_key"}
        /\ sync.pc # "idle" /\ sync.clean)
       => token_cache \in {sync.pre} \cup sync_outcomes(sync.pre, sync.batch, now)
      ]_vars

-----------------------------------------------------------------------------
(* Part III: the rate-limiter stage, stages/gsecret/rate_limiter.          *)
(* Times are kept relative to the clock: a timer or a reset of c stands    *)
(* for the instant c ticks from now, and RLTick lets one tick pass.  The   *)
(* BufferDelay of request thread r is named r.                             *)

\* BufferController._delay_from_rate_limit, as the fraction num / den:
\* reset_delta / max(remaining * 0.95, 1), and 0 once the reset has passed
delay_from_rate_limit(rate_limit) ==
    IF rate_limit.resets <= 0
    THEN [num |-> 0, den |-> 1]
    ELSE [num |-> rate_limit.resets * 100,
          den |-> IF rate_limit.remaining * 95 > 100
                  THEN rate_limit.remaining * 95 ELSE 100]

delay_less(d1, d2) == d1.num * d2.den < d2.num * d1.den

\* time.sleep(delay) ends at the first tick that is not before the delay
sleep_ticks(d) == (d.num + d.den - 1) \div d.den

has_rate_limit(api_name) == api_name \in DOMAIN api_rate_limits

\* BufferQueue.get_delays handing out the newest token of each bucket
get_delays_newest(q, ignore) ==
    [api_name \in {b \in DOMAIN q : b \notin ignore /\ q[b] # <<>>} |->
        q[api_name][Len(q[api_name])]]

\* BufferQueue.get_delays(ignore): the heads popped, bucket -> BufferDelay
get_delays(q, ignore) ==
    [api_name \in {b \in DOMAIN q : b \notin ignore /\ q[b] # <<>>} |-> Head(q[api_name])]

queue_after_get_delays(q, ignore) ==
    [api_name \in DOMAIN q |->
        IF api_name \notin ignore /\ q[api_name] # <<>>
        THEN Tail(q[api_name]) ELSE q[api_name]]

\* the buckets of delays in the order the worker's loop visits them: a dict
\* built by get_delays iterates in the order of the keys of BufferQueue.queue
visit_order(delays) == SelectSeq(queue_order, LAMBDA b : b \in DOMAIN delays)

\* the loop of _process_buffers over all_delays (lines 141-152): min_api after
\* the buckets order[1..n], "" while min_delay is still 0
RECURSIVE min_api_after(_, _)
min_api_after(order, n) ==
    IF n = 0 THEN ""
    ELSE LET prev == min_api_after(order, n - 1)
             api_name == order[n]
         IN  IF ~has_rate_limit(api_name) THEN prev
             ELSE LET d == delay_from_rate_limit(api_rate_limits[api_name]) IN
                  IF d.num = 0 THEN prev
                  ELSE IF prev = "" THEN api_name
                  ELSE IF delay_less(d, delay_from_rate_limit(api_rate_limits[prev]))
                       THEN api_name
                       ELSE prev

\* the buckets whose head the loop signals at once (delay_seconds == 0)
zero_delay(delays) ==
    {b \in DOMAIN delays :
        has_rate_limit(b) /\ delay_from_rate_limit(api_rate_limits[b]).num = 0}

\* the BufferDelay tokens sitting in a bucket queue
queued == UNION {Range(queue[b]) : b \in DOMAIN queue}
\* the BufferDelay tokens the worker holds in all_delays
held == Range(all_delays)

RLInit ==
    /\ token_cache = EmptyCache
    /\ ttl_seconds = MaxTtl
    /\ invalidate_on_upstream_error = TRUE
    /\ last = NoLast
    /\ now = 0
    /\ ConcAtRest
    /\ RLAtRest
    /\ StagesAtRest

\* RateLimiterGSecretExecutor.get_secret_id / get_secret_key up to the wait:
\* BufferDelay(timeout), then BufferedStageClient.id_delay / key_delay.  A
\* thread starts a request once the BufferDelay of its previous one has left
\* the queue and all_delays, so that r names one BufferDelay at a time.
RLRequest(r, kind, name) ==
    LET api_map == IF kind = "id" THEN secret_id_api_map ELSE secret_key_api_map IN
    /\ req[r].pc = "start"
    /\ r \notin queued \cup held
    /\ IF name \notin DOMAIN api_map \/ ~has_rate_limit(api_map[name])
       THEN /\ req' = [req EXCEPT ![r] = [RequestIdle EXCEPT
                         !.pc = "default_sleep", !.kind = kind, !.name = name,
                         !.timer = DefaultDelay]]
            /\ UNCHANGED <<queue, queue_order, queue_has_items, signalled>>
       ELSE LET api_name == api_map[name] IN
            /\ queue' = Put(queue, api_name,
                            IF api_name \in DOMAIN queue
                            THEN Append(queue[api_name], r) ELSE <<r>>)
            /\ queue_order' = IF api_name \in DOMAIN queue
                              THEN queue_order ELSE Append(queue_order, api_name)
            /\ queue_has_items' = TRUE
            /\ signalled' = signalled \ {r}
            /\ req' = [req EXCEPT ![r] = [RequestIdle EXCEPT
                         !.pc = "waiting", !.kind = kind, !.name = name,
                         !.timer = Timeout]]
    /\ UNCHANGED <<secret_id_api_map, secret_key_api_map, api_rate_limits,
                   all_delays, worker>>

\* time.sleep(self.default_delay) returns
RLDefaultWake(r) ==
    /\ req[r].pc = "default_sleep"
    /\ req[r].timer = 0
    /\ req' = [req EXCEPT ![r].pc = "call_next", ![r].woke = "default"]
    /\ UNCHANGED <<secret_id_api_map, secret_key_api_map, queue, queue_order,
                   queue_has_items, api_rate_limits, all_delays, worker, signalled>>

\* BufferDelay.wait without its timeout
wait_returns_on_signal_only(r) == r \in signalled

\* BufferDelay.wait: event.wait(delay_seconds) returns when the event is set
\* or the timeout has elapsed
wait_returns(r) == r \in signalled \/ req[r].timer = 0

\* api_delay.wait() returns and the handler goes on to next.next()
RLWaitReturn(r) ==
    /\ req[r].pc = "waiting"
    /\ wait_returns(r)
    /\ req' = [req EXCEPT ![r].pc = "call_next",
                          ![r].woke = IF r \in signalled THEN "signalled" ELSE "timeout"]
    /\ UNCHANGED <<secret_id_api_map, secret_key_api_map, queue, queue_order,
                   queue_has_items, api_rate_limits, all_delays, worker, signalled>>

\* the bucket the next stage names for a secret: one for reads by id and one
\* for reads by key, as bws_read does ("bws_read:id:..", "bws_read:key:..")
api_relation_of(kind) == IF kind = "id" THEN "A" ELSE "B"

\* what the next stage answers: a Secret with a RateLimit, a Secret without
\* one, or a failure
RLAnswers(kind) ==
    [code : {200}, api_relation : {api_relation_of(kind)},
     remaining : 1..MaxRemaining, resets : 0..MaxReset]
    \cup {[code |-> 200, api_relation |-> "", remaining |-> 0, resets |-> 0],
          [code |-> 500, api_relation |-> "", remaining |-> 0, resets |-> 0]}

\* the handler calls the next stage and, on a Secret with a rate_limit, logs
\* it: log_id_rate_limit / log_key_rate_limit
RLCallNext(r, answer) ==
    LET logs == answer.code = 200 /\ answer.api_relation # "" IN
    /\ req[r].pc = "call_next"
    /\ secret_id_api_map' =
          IF logs /\ req[r].kind = "id"
          THEN Put(secret_id_api_map, req[r].name, answer.api_relation)
          ELSE secret_id_api_map
    /\ secret_key_api_map' =
          IF logs /\ req[r].kind = "key"
          THEN Put(secret_key_api_map, req[r].name, answer.api_relation)
          ELSE secret_key_api_map
    /\ api_rate_limits' =
          IF logs
          THEN Put(api_rate_limits, answer.api_relation,
                   [remaining |-> answer.remaining, resets |-> answer.resets])
          ELSE api_rate_limits
    /\ req' = [req EXCEPT ![r] = RequestIdle]
    /\ UNCHANGED <<queue, queue_order, queue_has_items, all_delays, worker, signalled>>

\* RateLimiterGSecretExecutor.secret_updated for one UpdatedSecret whose
\* api_id_relation / api_key_relation is set ("" stands for None)
RLSecretUpdated(key_id, key, api_id_relation, api_key_relation) ==
    /\ secret_id_api_map' =
          IF api_id_relation # ""
          THEN Put(secret_id_api_map, key_id, api_id_relation)
          ELSE secret_id_api_map
    /\ secret_key_api_map' =
          IF api_key_relation # ""
          THEN Put(secret_key_api_map, key, api_key_relation)
          ELSE secret_key_api_map
    /\ UNCHANGED <<queue, queue_order, queue_has_items, api_rate_limits,
                   all_delays, worker, signalled, req>>

\* one pass of the loop of BufferController._process_buffers, up to its sleep:
\* wait_for_items, get_delays, and the loop over all_delays
WorkerPass ==
    LET delays == get_delays(queue, DOMAIN all_delays)
        zero == zero_delay(delays)
        order == visit_order(delays)
        min_api == min_api_after(order, Len(order))
    IN  /\ worker.pc = "wait_for_items"
        /\ queue_has_items
        /\ queue' = queue_after_get_delays(queue, DOMAIN all_delays)
        /\ queue_has_items' = (DOMAIN delays # {})
        /\ all_delays' = [b \in DOMAIN delays \ zero |-> delays[b]]
        /\ signalled' = signalled \cup {delays[b] : b \in zero}
        /\ worker' = IF min_api # ""
                     THEN [pc |-> "sleeping", min_api |-> min_api,
                           timer |-> sleep_ticks(delay_from_rate_limit(
                                                    api_rate_limits[min_api]))]
                     ELSE WorkerIdle
        /\ UNCHANGED <<secret_id_api_map, secret_key_api_map, queue_order,
                       api_rate_limits, req>>

\* time.sleep(min_delay) returns: all_delays.pop(min_api) and delay.event.set()
WorkerWake ==
    /\ worker.pc = "sleeping"
    /\ worker.timer = 0
    /\ signalled' = signalled \cup {all_delays[worker.min_api]}
    /\ all_delays' = Drop(all_delays, worker.min_api)
    /\ worker' = WorkerIdle
    /\ UNCHANGED <<secret_id_api_map, secret_key_api_map, queue, queue_order,
                   queue_has_items, api_rate_limits, req>>

\* a sleep or a wait whose time is up has not returned yet
Due ==
    \/ worker.pc = "sleeping" /\ worker.timer = 0
    \/ \E r \in Reqs : req[r].pc \in {"default_sleep", "waiting"} /\ req[r].timer = 0

Down(n) == IF n > 0 THEN n - 1 ELSE 0

\* one tick passes: every timer and every reset comes one tick closer
RLTick ==
    /\ ~Due
    /\ worker' = [worker EXCEPT !.timer = Down(worker.timer)]
    /\ req' = [r \in Reqs |-> [req[r] EXCEPT !.timer = Down(req[r].timer)]]
    /\ api_rate_limits' =
          [b \in DOMAIN api_rate_limits |->
              [api_rate_limits[b] EXCEPT !.resets = Down(api_rate_limits[b].resets)]]
    /\ UNCHANGED <<secret_id_api_map, secret_key_api_map, queue, queue_order,
                   queue_has_items, all_delays, signalled>>

rlFrame == UNCHANGED <<cacheVars, now, concVars, stageVars>>

RequestStep(r) ==
    \/ RLDefaultWake(r) /\ rlFrame
    \/ RLWaitReturn(r) /\ rlFrame
    \/ \E answer \in RLAnswers(req[r].kind) : RLCallNext(r, answer) /\ rlFrame

RLNext ==
    \/ \E r \in Reqs, key_id \in RLIds : RLRequest(r, "id", key_id) /\ rlFrame
    \/ \E r \in Reqs, key \in RLKeys : RLRequest(r, "key", key) /\ rlFrame
    \/ \E r \in Reqs : RequestStep(r)
    \/ \E key_id \in RLIds, key \in RLKeys,
          ir \in {api_relation_of("id"), ""}, kr \in {api_relation_of("key"), ""} :
          RLSecretUpdated(key_id, key, ir, kr) /\ rlFrame
    \/ WorkerPass /\ rlFrame
    \/ WorkerWake /\ rlFrame
    \/ RLTick /\ rlFrame

\* threads that are runnable run, and time passes
RLFairness ==
    /\ \A r \in Reqs : WF_vars(RequestStep(r))
    /\ WF_vars(WorkerPass /\ rlFrame)
    /\ WF_vars(WorkerWake /\ rlFrame)
    /\ WF_vars(RLTick /\ rlFrame)

SpecRL == RLInit /\ [][RLNext]_vars /\ RLFairness

\* C9: a BufferDelay enqueued on a bucket with a registered quota is never
\* dropped unsignalled: while its request waits on it, it is in its bucket
\* queue, or held by the worker in all_delays, or its event is set.
C9_NoTokenLost ==
    \A r \in Reqs :
        req[r].pc = "waiting" => r \in queued \cup held \cup signalled

C31_WorkerIdlesOnlyOnEmptyQueues ==
    (worker.pc = "wait_for_items" /\ ~queue_has_items) => queued = {}

\* the queue of bucket b, empty while the bucket has none
queue_of(q, b) == IF b \in DOMAIN q THEN q[b] ELSE <<>>

\* C32: per-bucket FIFO: a bucket queue changes only by a new BufferDelay
\* appended at its end or by its oldest token taken from its front; the
\* worker holds a token of a bucket only by taking the oldest of its queue
\* and holds no second one of that bucket before the first has left; a token
\* taken from a queue is in no queue, and a token whose event is set is
\* neither queued nor held, so it is signalled once and never put back.
C32_PerBucketFifo ==
    [][/\ \A b \in DOMAIN queue' :
            \/ queue'[b] = queue_of(queue, b)
            \/ /\ queue_of(queue, b) # <<>>
               /\ queue'[b] = Tail(queue_of(queue, b))
               /\ \/ b \in DOMAIN all_delays' /\ all_delays'[b] = Head(queue[b])
                  \/ Head(queue[b]) \in signalled'
            \/ \E r \in Reqs :
                  /\ queue'[b] = Append(queue_of(queue, b), r)
                  /\ r \notin queued \cup held
                  /\ req[r].pc = "start"
       /\ \A b \in DOMAIN all_delays' :
            \/ b \in DOMAIN all_delays /\ all_delays'[b] = all_delays[b]
            \/ /\ b \notin DOMAIN all_delays
               /\ queue_of(queue, b) # <<>>
               /\ all_delays'[b] = Head(queue[b])
       /\ \A r \in signalled' \ signalled :
            \/ r \in held
            \/ \E b \in DOMAIN queue : queue[b] # <<>> /\ r = Head(queue[b])
       /\ held' \cap queued' = {}
       /\ signalled' \cap (queued' \cup held') = {}
      ]_vars

\* the first of two tokens of one bucket has been signalled and its request
\* has not returned yet, while the second is still queued behind it
C32_Witness ==
    \E r1, r2 \in Reqs :
        /\ r1 # r2
        /\ req[r1].pc = "waiting" /\ req[r2].pc = "waiting"
        /\ req[r1].kind = req[r2].kind
        /\ r1 \in signalled /\ req[r1].timer > 0
        /\ r2 \in queued

-----------------------------------------------------------------------------
(* Part IV: the upstream-read stage, stages/gsecret/bws_read, in a chain   *)
(* of chain_len stages whose bws_read stages sit at read_stages.  The      *)
(* stages share one BwsClientController, hence one BwsClient per token; a  *)
(* sync callback is the bound method secrets_sync of a bws_read stage and  *)
(* is named by that stage's index.                                         *)

None == 0 - 1

\* ForwardChainExecutor.next that never advances
forward_next_stuck(current_index, n) ==
    IF 0 <= current_index /\ current_index < n
    THEN [stage |-> current_index, current_index |-> current_index]
    ELSE [stage |-> None, current_index |-> current_index]

\* ReverseChainExecutor.__init__ without the default
reverse_init_as_given(current_index, n) == current_index

\* ForwardChainExecutor.next: the stage handed out (None past the end) and
\* the executor's position afterwards
forward_next(current_index, n) ==
    IF 0 <= current_index /\ current_index < n
    THEN [stage |-> current_index, current_index |-> current_index + 1]
    ELSE [stage |-> None, current_index |-> current_index]

\* ReverseChainExecutor.__init__: the position of a new executor
reverse_init(current_index, n) ==
    IF current_index = 0 - 1 THEN n - 1 ELSE current_index

\* ReverseChainExecutor.next: the stage handed out is the one at the
\* executor's position, which then steps down
reverse_next(current_index, n) ==
    IF 0 <= current_index /\ current_index < n
    THEN [stage |-> current_index, current_index |-> current_index - 1]
    ELSE [stage |-> None, current_index |-> current_index]

\* "stage, next_executor = executor": next() returns the stage object itself,
\* which is not iterable, so the unpacking raises TypeError
unpack_raises(executor) == executor.stage # None

\* the except clauses of get_secret_id / get_secret_key, all mapped to 500
failure_code_500(exc) == 500

\* the except clauses of get_secret_id / get_secret_key: the code of the
\* failure returned for an exception of the client
failure_code(exc) ==
    IF exc = "Unauthorised" THEN 401
    ELSE IF exc = "APIRateLimit" THEN 429
    ELSE 500

ClientErrors == {"Unauthorised", "APIRateLimit", "ApiError", "other"}
LookupOutcomes == {"secret", "none", "SecretNotFound"} \cup ClientErrors

\* the lookup found no secret and the handler leaves its try block
falls_through(op, outcome) ==
    \/ outcome = "none"
    \/ op = "get_secret_key" /\ outcome = "SecretNotFound"

\* BwsReadGSecretExecutor.get_secret_id / get_secret_key after get_client:
\* the lookup's outcome, then the forward to the next stage.  next_index is
\* the position of the handler's ForwardChainExecutor, answer what the next
\* stage would return.
bws_read_get(op, outcome, next_index, n, answer) ==
    IF outcome = "secret" THEN [result |-> BwsSecret, called |-> <<>>]
    ELSE IF ~falls_through(op, outcome)
    THEN [result |-> Failure(failure_code(outcome)), called |-> <<>>]
    ELSE LET executor == forward_next(next_index, n) IN
         IF executor.stage = None
         THEN [result |-> Failure(404), called |-> <<>>]
         ELSE IF unpack_raises(executor)
         THEN [result |-> Raised("TypeError"), called |-> <<>>]
         ELSE [result |-> answer,
               called |-> <<[stage |-> executor.stage, op |-> "get_secret_id"]>>]

\* BwsReadGSecretExecutor.secrets_sync of the stage at index i: the stages
\* whose secret_updated ran, and whether the call raised
secrets_sync(i, n) ==
    LET executor == reverse_next(reverse_init(i, n), n) IN
    IF executor.stage = None THEN [invoked |-> <<>>, raised |-> FALSE]
    ELSE IF unpack_raises(executor) THEN [invoked |-> <<>>, raised |-> TRUE]
    ELSE [invoked |-> <<executor.stage>>, raised |-> FALSE]

BwsInit ==
    /\ token_cache = EmptyCache
    /\ ttl_seconds = MaxTtl
    /\ invalidate_on_upstream_error = TRUE
    /\ last = NoLast
    /\ now = 0
    /\ ConcAtRest
    /\ RLAtRest
    /\ chain_len \in 1..MaxChain
    /\ read_stages \in (SUBSET (0..(chain_len - 1))) \ {{}}
    /\ bws_req = BwsReqIdle /\ bws_last = BwsNoLast
    /\ sync_callbacks = <<>> /\ sync_all = <<>> /\ new_callbacks = <<>>
    /\ sync_thread = SyncNotStarted /\ full_delivered = {} /\ sync_last = NoSyncLast
    /\ GenAtRest /\ ParseAtRest /\ CoreAtRest

BwsOps == {"get_secret_id", "get_secret_key"}

\* get_secret_id / get_secret_key of stage i: client_controller.get_client
\* raises (creating the client, or a region mismatch); the handler maps it
BwsGetClientRaises(i, op, exc) ==
    /\ bws_req.pc = "idle"
    /\ bws_last' = [op |-> op, stage |-> i, outcome |-> exc,
                    has_next |-> i + 1 < chain_len, answer |-> NoAnswer,
                    result |-> Failure(failure_code(exc)), called |-> <<>>]
    /\ UNCHANGED <<chain_len, read_stages, bws_req, sync_callbacks, sync_all,
                   new_callbacks, sync_thread, full_delivered, sync_last>>

\* get_client returns the (new or cached) client: the first call starts the
\* sync thread; ensure_callback appends the stage's secrets_sync to
\* sync_callbacks when it is not there yet
BwsGetClient(i, op) ==
    /\ bws_req.pc = "idle"
    /\ sync_thread' = IF sync_thread.pc = "not_started"
                      THEN [pc |-> "copy", k |-> 0] ELSE sync_thread
    /\ IF i \in Range(sync_callbacks)
       THEN /\ bws_req' = [pc |-> "lookup", stage |-> i, op |-> op, name |-> ""]
            /\ UNCHANGED sync_callbacks
       ELSE /\ bws_req' = [pc |-> "ensure", stage |-> i, op |-> op, name |-> ""]
            /\ sync_callbacks' = Append(sync_callbacks, i)
    /\ UNCHANGED <<chain_len, read_stages, bws_last, sync_all, new_callbacks,
                   full_delivered, sync_last>>

\* ensure_callback: self.sync_all.append(callback)
BwsEnsureCallback ==
    /\ bws_req.pc = "ensure"
    /\ sync_all' = Append(sync_all, bws_req.stage)
    /\ bws_req' = [bws_req EXCEPT !.pc = "lookup"]
    /\ UNCHANGED <<chain_len, read_stages, bws_last, sync_callbacks, new_callbacks,
                   sync_thread, full_delivered, sync_last>>

\* client.get_by_id / get_by_key and the rest of the handler
BwsLookup(outcome, answer) ==
    LET r == bws_read_get(bws_req.op, outcome, bws_req.stage + 1, chain_len, answer)
        has_next == bws_req.stage + 1 < chain_len
    IN
    /\ bws_req.pc = "lookup"
    /\ bws_last' = [op |-> bws_req.op, stage |-> bws_req.stage, outcome |-> outcome,
                    has_next |-> has_next,
                    answer |-> IF falls_through(bws_req.op, outcome) /\ has_next
                               THEN answer ELSE NoAnswer,
                    result |-> r.result, called |-> r.called]
    /\ bws_req' = BwsReqIdle
    /\ UNCHANGED <<chain_len, read_stages, sync_callbacks, sync_all, new_callbacks,
                   sync_thread, full_delivered, sync_last>>

\* _sync_loop: new_callbacks = self.sync_all.copy()
SyncCopy ==
    /\ sync_thread.pc = "copy"
    /\ new_callbacks' = sync_all
    /\ sync_thread' = [pc |-> "reset", k |-> 0]
    /\ UNCHANGED <<chain_len, read_stages, bws_req, bws_last, sync_callbacks,
                   sync_all, full_delivered, sync_last>>

\* _sync_loop: self.sync_all = []
SyncReset ==
    /\ sync_thread.pc = "reset"
    /\ sync_all' = <<>>
    /\ sync_thread' = [pc |-> IF new_callbacks # <<>> THEN "full_sync" ELSE "inc_sync",
                       k |-> 0]
    /\ UNCHANGED <<chain_len, read_stages, bws_req, bws_last, sync_callbacks,
                   new_callbacks, full_delivered, sync_last>>

\* _sync_loop: secrets = self._sync(epoch); a null payload is skipped
SyncFull(is_null) ==
    /\ sync_thread.pc = "full_sync"
    /\ sync_thread' = [pc |-> IF is_null THEN "copy" ELSE "full_deliver", k |-> 1]
    /\ UNCHANGED <<chain_len, read_stages, bws_req, bws_last, sync_callbacks,
                   sync_all, new_callbacks, full_delivered, sync_last>>

\* one turn of a loop "for callback in callbacks: callback(...)" of
\* _sync_loop: the position after the call, the thread ending on an exception
after_callback(callbacks, call, then) ==
    IF call.raised THEN [pc |-> "dead", k |-> 0]
    ELSE IF sync_thread.k < Len(callbacks)
    THEN [sync_thread EXCEPT !.k = sync_thread.k + 1]
    ELSE [pc |-> then, k |-> 0]

\* _sync_loop: callback(token_hash, secrets) for the next of new_callbacks
SyncFullDeliver ==
    LET callback == new_callbacks[sync_thread.k]
        call == secrets_sync(callback, chain_len)
    IN  /\ sync_thread.pc = "full_deliver"
        /\ full_delivered' = full_delivered \cup {callback}
        /\ sync_last' = [stage |-> callback, invoked |-> call.invoked,
                         raised |-> call.raised]
        /\ sync_thread' = after_callback(new_callbacks, call, "inc_sync")
        /\ UNCHANGED <<chain_len, read_stages, bws_req, bws_last, sync_callbacks,
                       sync_all, new_callbacks>>

\* _sync_loop: secrets = self._sync(self.last_sync); a null payload is skipped
SyncInc(is_null) ==
    /\ sync_thread.pc = "inc_sync"
    /\ sync_thread' = [pc |-> IF is_null \/ sync_callbacks = <<>>
                              THEN "copy" ELSE "inc_deliver",
                       k |-> IF is_null \/ sync_callbacks = <<>> THEN 0 ELSE 1]
    /\ UNCHANGED <<chain_len, read_stages, bws_req, bws_last, sync_callbacks,
                   sync_all, new_callbacks, full_delivered, sync_last>>

\* _sync_loop: callback(token_hash, secrets) for the next of sync_callbacks
SyncIncDeliver ==
    LET callback == sync_callbacks[sync_thread.k]
        call == secrets_sync(callback, chain_len)
    IN  /\ sync_thread.pc = "inc_deliver"
        /\ sync_last' = [stage |-> callback, invoked |-> call.invoked,
                         raised |-> call.raised]
        /\ sync_thread' = after_callback(sync_callbacks, call, "copy")
        /\ UNCHANGED <<chain_len, read_stages, bws_req, bws_last, sync_callbacks,
                       sync_all, new_callbacks, full_delivered>>

bwsFrame == UNCHANGED <<cacheVars, now, concVars, rlVars, genVars, parseVars, coreVars>>

BwsNext ==
    \/ \E i \in read_stages, op \in BwsOps, exc \in ClientErrors :
          BwsGetClientRaises(i, op, exc) /\ bwsFrame
    \/ \E i \in read_stages, op \in BwsOps : BwsGetClient(i, op) /\ bwsFrame
    \/ BwsEnsureCallback /\ bwsFrame
    \/ \E outcome \in LookupOutcomes, answer \in DownAnswers :
          BwsLookup(outcome, answer) /\ bwsFrame
    \/ SyncCopy /\ bwsFrame
    \/ SyncReset /\ bwsFrame
    \/ \E is_null \in BOOLEAN : SyncFull(is_null) /\ bwsFrame
    \/ SyncFullDeliver /\ bwsFrame
    \/ \E is_null \in BOOLEAN : SyncInc(is_null) /\ bwsFrame
    \/ SyncIncDeliver /\ bwsFrame

SpecBws == BwsInit /\ [][BwsNext]_vars

\* C11: a read of bws_read whose client reports no secret (None, or
\* SecretNotFound) returns, when a next stage exists, exactly what that stage
\* answers to the same request, and a 404 failure when bws_read is the last
\* stage; it never raises and never answers 500 of its own.
C11_MissForwardsToNextStage ==
    (bws_last.op \in BwsOps /\ bws_last.outcome \in {"none", "SecretNotFound"}) =>
        IF bws_last.has_next
        THEN /\ bws_last.result = bws_last.answer
             /\ bws_last.called = <<[stage |-> bws_last.stage + 1, op |-> bws_last.op]>>
        ELSE bws_last.result = Failure(404)

\* C12: when get_client or the lookup raises Unauthorised, APIRateLimit,
\* ApiError or any other exception, the read returns a failure with code
\* 401, 429, 500, 500 respectively and calls no next stage.
C12_ClientErrorsTerminate ==
    (bws_last.op \in BwsOps /\ bws_last.outcome \in ClientErrors) =>
        /\ bws_last.called = <<>>
        /\ bws_last.outcome = "Unauthorised" => bws_last.result = Failure(401)
        /\ bws_last.outcome = "APIRateLimit" => bws_last.result = Failure(429)
        /\ bws_last.outcome \in {"ApiError", "other"} => bws_last.result = Failure(500)

\* C12 happens: a lookup that hit the rate limit, in a stage with a next
\* stage, ended as a 429 failure
C12_Witness ==
    /\ bws_last.outcome = "APIRateLimit"
    /\ bws_last.has_next
    /\ bws_req.pc = "idle" /\ Len(sync_callbacks) > 0
    /\ bws_last.result = Failure(429)

\* the indices i-1, i-2, ..., 0
descending(i) == [j \in 1..i |-> i - j]

\* C13: secrets_sync of the read stage at index i invokes secret_updated on
\* the stages i-1, i-2, ..., 0, each once and in that order, and on no
\* other stage.
C13_ReversePropagationOrder ==
    sync_last.stage >= 0 => sync_last.invoked = descending(sync_last.stage)

\* C14: a failure raised while a batch is propagated in reverse is
\* swallowed: it does not end the sync loop that originated the propagation,
\* so the other callbacks still receive the batch.
C14_PropagationFailureSwallowed ==
    sync_last.raised => sync_thread.pc # "dead"

\* C15: a callback registered with ensure_callback is not dropped before it
\* was invoked with a sync from epoch: it is being registered, or waits in
\* sync_all, or is held by the running pass in new_callbacks, or was invoked
\* with the full sync.
C15_NewCallbackGetsFullSnapshot ==
    \A c \in Range(sync_callbacks) :
        \/ bws_req.pc = "ensure" /\ bws_req.stage = c
        \/ c \in Range(sync_all)
        \/ /\ c \in Range(new_callbacks)
           /\ sync_thread.pc \in {"reset", "full_sync", "full_deliver"}
        \/ c \in full_delivered

-----------------------------------------------------------------------------
(* Part V: the generator stage, stages/gsecret/generator.  A string is a   *)
(* sequence of characters; each character class of the string module is    *)
(* represented by two of its characters.                                   *)

ascii_uppercase == <<"A", "I">>
ascii_lowercase == <<"a", "i">>
digits == <<"0", "2">>
symbol_set == <<"!">>
\* the literals "0Ol1I" and "il1Lo0O" of _generate_secret
Ambiguous == {"0", "O", "l", "1", "I"}
Similar == {"i", "l", "1", "L", "o", "0", "O"}

\* "".join(c for c in charset if c not in excluded)
without(charset, excluded) == SelectSeq(charset, LAMBDA c : c \notin excluded)

\* _generate_secret, lines 105-116: custom_charset, or the enabled classes
base_charset(cfg) ==
    IF cfg.custom_charset # <<>> THEN cfg.custom_charset
    ELSE (IF cfg.include_uppercase THEN ascii_uppercase ELSE <<>>)
         \o (IF cfg.include_lowercase THEN ascii_lowercase ELSE <<>>)
         \o (IF cfg.include_numbers THEN digits ELSE <<>>)
         \o (IF cfg.include_symbols THEN symbol_set ELSE <<>>)

\* the exclusions without the exclude_chars step
final_charset_keeping_exclude_chars(cfg) ==
    LET c1 == IF cfg.exclude_ambiguous
              THEN without(base_charset(cfg), Ambiguous) ELSE base_charset(cfg)
    IN  IF cfg.exclude_similar THEN without(c1, Similar) ELSE c1

\* _generate_secret, lines 122-127: the charset after the exclusions
final_charset(cfg) ==
    LET c1 == IF cfg.exclude_ambiguous
              THEN without(base_charset(cfg), Ambiguous) ELSE base_charset(cfg)
        c2 == IF cfg.exclude_similar THEN without(c1, Similar) ELSE c1
    IN  IF cfg.exclude_chars # <<>> THEN without(c2, Range(cfg.exclude_chars)) ELSE c2

\* the strings of n characters drawn from the set S
strings_of(S, n) == [1..n -> S]

\* _generate_secret: what a call can produce.  The empty test (line 118)
\* comes before the exclusions; secrets.choice of an empty charset raises
\* IndexError; otherwise every string of length characters can be drawn.
generate_secret(cfg) ==
    IF base_charset(cfg) = <<>>
    THEN {[ran |-> TRUE, raised |-> FALSE, value |-> <<>>]}
    ELSE IF final_charset(cfg) = <<>>
    THEN {[ran |-> TRUE, raised |-> TRUE, value |-> <<>>]}
    ELSE {[ran |-> TRUE, raised |-> FALSE, value |-> v] :
             v \in strings_of(Range(final_charset(cfg)), cfg.length)}

GenConfigs ==
    [length : 1..MaxLength,
     include_uppercase : BOOLEAN, include_lowercase : BOOLEAN,
     include_numbers : BOOLEAN, include_symbols : BOOLEAN,
     custom_charset : {<<>>, <<"O", "x">>},
     exclude_ambiguous : BOOLEAN, exclude_similar : BOOLEAN,
     exclude_chars : {<<>>, <<"x", "A", "a", "2", "!">>},
     overwrite_existing : BOOLEAN]

\* the generator is the first stage of the chain: its handlers run with a
\* ForwardChainExecutor at position 1
gen_next_index == 1

GenInit ==
    /\ token_cache = EmptyCache
    /\ ttl_seconds = MaxTtl
    /\ invalidate_on_upstream_error = TRUE
    /\ last = NoLast
    /\ now = 0
    /\ ConcAtRest
    /\ RLAtRest
    /\ chain_len \in 1..MaxChain
    /\ read_stages = {}
    /\ bws_req = BwsReqIdle /\ bws_last = BwsNoLast
    /\ sync_callbacks = <<>> /\ sync_all = <<>> /\ new_callbacks = <<>>
    /\ sync_thread = SyncNotStarted /\ full_delivered = {} /\ sync_last = NoSyncLast
    /\ gen_config \in GenConfigs
    /\ gen_last = GenNoLast
    /\ ParseAtRest /\ CoreAtRest

\* a call made on the next stage
Call(stage, op, secret) == [stage |-> stage, op |-> op, secret |-> secret]

\* GeneratorGSecretExecutor.get_secret_key: probe is what the next stage
\* answers to get_secret_key, g what _generate_secret produces, write_answer
\* what the next stage answers to write_secret
gen_get_secret_key(cfg, n, probe, g, write_answer) ==
    LET executor == forward_next(gen_next_index, n)
        stage == executor.stage
        probed == ~cfg.overwrite_existing
        probe_calls == IF probed THEN <<Call(stage, "get_secret_key", <<>>)>> ELSE <<>>
    IN  IF stage = None
        THEN [has_next |-> FALSE, probe |-> NoAnswer, calls |-> <<>>,
              generated |-> NotGenerated, result |-> Failure(501)]
        ELSE IF probed /\ probe # Failure(404)
        THEN [has_next |-> TRUE, probe |-> probe, calls |-> probe_calls,
              generated |-> NotGenerated, result |-> probe]
        ELSE IF g.raised
        THEN [has_next |-> TRUE, probe |-> IF probed THEN probe ELSE NoAnswer,
              calls |-> probe_calls, generated |-> g,
              result |-> Raised("IndexError")]
        ELSE [has_next |-> TRUE, probe |-> IF probed THEN probe ELSE NoAnswer,
              calls |-> Append(probe_calls, Call(stage, "write_secret", g.value)),
              generated |-> g, result |-> write_answer]

GenGetSecretKey(probe, g, write_answer) ==
    LET r == gen_get_secret_key(gen_config, chain_len, probe, g, write_answer) IN
    /\ gen_last' = [op |-> "get_secret_key", has_next |-> r.has_next,
                    probe |-> r.probe, calls |-> r.calls,
                    generated |-> r.generated, result |-> r.result]
    /\ UNCHANGED gen_config

\* get_secret_id and write_secret of the generator: handed to the next
\* stage, 404 / 501 without one
gen_pass_through(op, n, answer) ==
    LET executor == forward_next(gen_next_index, n) IN
    IF executor.stage = None
    THEN [has_next |-> FALSE, calls |-> <<>>,
          result |-> Failure(IF op = "get_secret_id" THEN 404 ELSE 501)]
    ELSE [has_next |-> TRUE, calls |-> <<Call(executor.stage, op, <<>>)>>,
          result |-> answer]

GenPassThrough(op, answer) ==
    LET r == gen_pass_through(op, chain_len, answer) IN
    /\ gen_last' = [op |-> op, has_next |-> r.has_next, probe |-> NoAnswer,
                    calls |-> r.calls, generated |-> NotGenerated,
                    result |-> r.result]
    /\ UNCHANGED gen_config

genFrame == UNCHANGED <<cacheVars, now, concVars, rlVars, bwsVars, parseVars, coreVars>>

GenNext ==
    \/ \E probe \in DownAnswers, g \in generate_secret(gen_config),
          write_answer \in DownAnswers :
          GenGetSecretKey(probe, g, write_answer) /\ genFrame
    \/ \E answer \in DownAnswers : GenPassThrough("get_secret_id", answer) /\ genFrame
    \/ \E answer \in DownAnswers : GenPassThrough("write_secret", answer) /\ genFrame

SpecGen == GenInit /\ [][GenNext]_vars

\* the write_secret calls among the calls of the last handler
writes_of(calls) == SelectSeq(calls, LAMBDA c : c.op = "write_secret")

\* C16: get_secret_key with a next stage issues write_secret, exactly once
\* and on the stage right after the generator, iff overwrite_existing is
\* set or the probe answered 404; otherwise the probe's answer is returned
\* unchanged and nothing is written.  Without a next stage the result is a
\* 501 failure.
C16_WritesOnlyOnAbsence ==
    gen_last.op = "get_secret_key" =>
        IF gen_last.has_next
        THEN /\ Len(writes_of(gen_last.calls)) <= 1
             /\ (Len(writes_of(gen_last.calls)) = 1)
                   <=> (gen_config.overwrite_existing \/ gen_last.probe = Failure(404))
             /\ \A i \in 1..Len(gen_last.calls) :
                   gen_last.calls[i].stage = gen_next_index
             /\ writes_of(gen_last.calls) = <<>> => gen_last.result = gen_last.probe
        ELSE gen_last.result = Failure(501) /\ gen_last.calls = <<>>

\* the characters the configuration allows: those of custom_charset or of
\* the enabled classes that no exclusion removes
allowed_chars(cfg) ==
    {c \in Range(base_charset(cfg)) :
        /\ cfg.exclude_ambiguous => c \notin Ambiguous
        /\ cfg.exclude_similar => c \notin Similar
        /\ c \notin Range(cfg.exclude_chars)}

\* C17: whenever no character is allowed, _generate_secret returns the empty
\* string and does not fail, also when the charset is emptied only by the
\* exclusions.
C17_EmptyCharsetGivesEmptyString ==
    (gen_last.generated.ran /\ allowed_chars(gen_config) = {}) =>
        ~gen_last.generated.raised /\ gen_last.generated.value = <<>>

\* C18: when some character is allowed, the generated value has exactly
\* length characters and each of them is an allowed character.
C18_OutputFromFinalCharset ==
    (gen_last.generated.ran /\ allowed_chars(gen_config) # {}) =>
        /\ ~gen_last.generated.raised
        /\ Len(gen_last.generated.value) = gen_config.length
        /\ Range(gen_last.generated.value) \subseteq allowed_chars(gen_config)

\* C18 happens: a value of more than one character was generated from a
\* charset that the exclusions had reduced
C18_Witness ==
    /\ gen_last.generated.ran
    /\ allowed_chars(gen_config) # {}
    /\ allowed_chars(gen_config) # Range(base_charset(gen_config))
    /\ Len(gen_last.generated.value) > 1
    /\ gen_last.result.code = 200

-----------------------------------------------------------------------------
(* Part VI: the parse stage, stages/gsecret/parse_secret.  A Python value  *)
(* is a record [t, v]: its type and its content; the content of a scalar   *)
(* is its text, a sequence of lexemes, the content of a list its items and *)
(* the content of a dict its <<key, value>> pairs.  A text (the content of *)
(* a str) is a sequence of lexemes.                                        *)

Str(text) == [t |-> "str", v |-> text]
PyNone == [t |-> "null", v |-> <<"null">>]
PyTrue == [t |-> "bool", v |-> <<"true">>]
PyInt == [t |-> "int", v |-> <<"1">>]
List(items) == [t |-> "list", v |-> items]
Dict(pairs) == [t |-> "dict", v |-> pairs]
\* a value json.dumps cannot serialize
PyObject == [t |-> "object", v |-> <<>>]

StrTexts == {<<"a">>, <<"1">>}
Atoms == {PyNone, PyTrue, PyInt} \cup {Str(c) : c \in StrTexts}

\* the values json.loads can return: scalars, lists, dicts with str keys
JsonParsed ==
    Atoms \cup {List(<<>>), Dict(<<>>)} \cup {List(<<x>>) : x \in Atoms}
    \cup {Dict(<< <<Str(c), x>> >>) : c \in StrTexts, x \in Atoms}

\* the values written through the stage
WriteValues ==
    Atoms \cup {List(<<Str(<<"a">>)>>), List(<<PyInt>>),
                Dict(<< <<Str(<<"a">>), PyInt>> >>), Dict(<< <<PyInt, Str(<<"a">>)>> >>),
                PyObject}

RECURSIVE join_texts(_)
\* ",".join(texts)
join_texts(texts) ==
    IF texts = <<>> THEN <<>>
    ELSE IF Len(texts) = 1 THEN texts[1]
    ELSE texts[1] \o <<",">> \o join_texts(Tail(texts))

\* a JSON string literal: the text between quotes, quotes in it escaped
quoted(text) ==
    <<"\"">> \o [i \in 1..Len(text) |-> IF text[i] = "\"" THEN "\\\"" ELSE text[i]]
    \o <<"\"">>

RECURSIVE serializable(_)
\* json.dumps(value) does not raise TypeError
serializable(x) ==
    IF x.t = "object" THEN FALSE
    ELSE IF x.t = "list" THEN \A i \in 1..Len(x.v) : serializable(x.v[i])
    ELSE IF x.t = "dict"
    THEN \A i \in 1..Len(x.v) :
            x.v[i][1].t \in {"str", "int", "bool", "null"} /\ serializable(x.v[i][2])
    ELSE TRUE

RECURSIVE json_dumps(_)
\* json.dumps(value, ensure_ascii=False): the JSON text of a value; a key
\* that is not a str is written as the string of its text
json_dumps(x) ==
    IF x.t = "str" THEN quoted(x.v)
    ELSE IF x.t = "list"
    THEN <<"[">> \o join_texts([i \in 1..Len(x.v) |-> json_dumps(x.v[i])]) \o <<"]">>
    ELSE IF x.t = "dict"
    THEN <<"{">>
         \o join_texts([i \in 1..Len(x.v) |->
                quoted(x.v[i][1].v) \o <<":">> \o json_dumps(x.v[i][2])])
         \o <<"}">>
    ELSE x.v

\* the JSON text of each value json.loads can return
json_text == [x \in JsonParsed |-> json_dumps(x)]

\* json.loads(text): the value whose JSON text this is; none: JSONDecodeError
json_loads(text) ==
    IF \E x \in JsonParsed : json_text[x] = text
    THEN [ok |-> TRUE, value |-> CHOOSE x \in JsonParsed : json_text[x] = text]
    ELSE [ok |-> FALSE, value |-> NoValue]

RECURSIVE py_repr(_)
\* repr(value), which str(value) gives for a value that is not a str
py_repr(x) ==
    IF x.t = "str" THEN <<"'">> \o x.v \o <<"'">>
    ELSE IF x.t = "null" THEN <<"None">>
    ELSE IF x.t = "bool" THEN <<"True">>
    ELSE IF x.t = "object" THEN <<"<object>">>
    ELSE IF x.t = "list"
    THEN <<"[">> \o join_texts([i \in 1..Len(x.v) |-> py_repr(x.v[i])]) \o <<"]">>
    ELSE IF x.t = "dict"
    THEN <<"{">>
         \o join_texts([i \in 1..Len(x.v) |->
                py_repr(x.v[i][1]) \o <<":">> \o py_repr(x.v[i][2])])
         \o <<"}">>
    ELSE x.v

\* the texts YAML does not read as a plain string
yaml_not_plain(text) ==
    json_loads(text).ok \/ (text # <<>> /\ text[1] \in {"{", "[", "\"", "'", "!"})

RECURSIVE yaml_flow(_)
\* a node of yaml.dump in flow style: a str is plain unless it would be read
\* back as something else
yaml_flow(x) ==
    IF x.t = "str"
    THEN IF yaml_not_plain(x.v) THEN <<"'">> \o x.v \o <<"'">> ELSE x.v
    ELSE IF x.t = "object" THEN <<"!", "python/object">>
    ELSE IF x.t = "list"
    THEN <<"[">> \o join_texts([i \in 1..Len(x.v) |-> yaml_flow(x.v[i])]) \o <<"]">>
    ELSE IF x.t = "dict"
    THEN <<"{">>
         \o join_texts([i \in 1..Len(x.v) |->
                yaml_flow(x.v[i][1]) \o <<":">> \o yaml_flow(x.v[i][2])])
         \o <<"}">>
    ELSE x.v

\* yaml.dump(value, default_flow_style=True): the document of the value
yaml_dump(x) ==
    IF x.t \in {"list", "dict", "object"} THEN yaml_flow(x) \o <<"\n">>
    ELSE yaml_flow(x) \o <<"\n", "...", "\n">>

\* the document of each value a YAML document of the store can hold
yaml_text == [x \in WriteValues \ {PyObject} |-> yaml_dump(x)]

\* yaml.safe_load(text): the value of a document yaml.dump writes or of a
\* JSON text; a plain string otherwise; none (YAMLError) for a text that
\* opens a flow collection, a quote or a tag and is none of these
yaml_load(text) ==
    IF \E x \in DOMAIN yaml_text : yaml_text[x] = text
    THEN [ok |-> TRUE, value |-> CHOOSE x \in DOMAIN yaml_text : yaml_text[x] = text]
    ELSE IF json_loads(text).ok THEN json_loads(text)
    ELSE IF yaml_not_plain(text) THEN [ok |-> FALSE, value |-> NoValue]
    ELSE [ok |-> TRUE, value |-> Str(text)]

\* what a parser makes of a text that it cannot read: the text itself under
\* parse_errors_as_string, ValueError otherwise
unparseable(cfg, value) ==
    IF cfg.parse_errors_as_string
    THEN [ok |-> TRUE, value |-> value] ELSE [ok |-> FALSE, value |-> NoValue]

\* ParseSecretGSecretExecutor._parse_secret_value; ok FALSE: ValueError
parse_secret_value(cfg, value) ==
    IF cfg.parse_on_read = "none" \/ value.t # "str"
    THEN [ok |-> TRUE, value |-> value]
    ELSE IF cfg.parse_on_read = "auto"
    THEN IF json_loads(value.v).ok THEN json_loads(value.v)
         ELSE IF yaml_load(value.v).ok THEN yaml_load(value.v)
         ELSE unparseable(cfg, value)
    ELSE IF cfg.parse_on_read = "json"
    THEN IF json_loads(value.v).ok THEN json_loads(value.v)
         ELSE unparseable(cfg, value)
    ELSE IF yaml_load(value.v).ok THEN yaml_load(value.v)
         ELSE unparseable(cfg, value)

\* ParseSecretGSecretExecutor._encode_secret_value
encode_secret_value(cfg, value) ==
    IF cfg.encode_on_write = "none"
    THEN IF value.t # "str" THEN Str(py_repr(value)) ELSE value
    ELSE IF value.t = "str" THEN value
    ELSE IF cfg.encode_on_write = "json"
    THEN IF serializable(value) THEN Str(json_dumps(value)) ELSE value
    ELSE Str(yaml_dump(value))

\* ParseSecretConfig; pretty_print and yaml_safe_load keep their defaults
ParseConfigs ==
    [encode_on_write : {"none", "json", "yaml"},
     parse_on_read : {"none", "json", "yaml", "auto"},
     parse_errors_as_string : BOOLEAN]

\* ParseSecretGSecretExecutor.__init__ as stage parse_index of a chain whose
\* next stage, if any, is a store holding one secret
ParseInit ==
    /\ token_cache = EmptyCache
    /\ ttl_seconds = MaxTtl
    /\ invalidate_on_upstream_error = TRUE
    /\ last = NoLast
    /\ now = 0
    /\ ConcAtRest
    /\ RLAtRest
    /\ chain_len \in 1..MaxChain
    /\ read_stages = {}
    /\ bws_req = BwsReqIdle /\ bws_last = BwsNoLast
    /\ sync_callbacks = <<>> /\ sync_all = <<>> /\ new_callbacks = <<>>
    /\ sync_thread = SyncNotStarted /\ full_delivered = {} /\ sync_last = NoSyncLast
    /\ GenAtRest
    /\ CoreAtRest
    /\ parse_config \in ParseConfigs
    /\ parse_index \in 0..(chain_len - 1)
    /\ parse_store = NoValue
    /\ parse_last = ParseNoLast

\* the failure with which the next stage answers when it does not serve
DownFailure == PFailure(429)

\* the result of a handler from the Secret its next stage returned
parsed_result(cfg, secret) ==
    LET parsed_value == parse_secret_value(cfg, secret) IN
    IF parsed_value.ok THEN PSecret(parsed_value.value) ELSE PFailure(500)

\* get_secret_id and get_secret_key: the next stage answers with what it
\* stores (404 when it stores nothing) or with a failure of its own
parse_get_secret(cfg, index, n, store, down_ok) ==
    LET executor == forward_next(index + 1, n) IN
    IF executor.stage = None THEN PFailure(404)
    ELSE IF ~down_ok THEN DownFailure
    ELSE IF store = NoValue THEN PFailure(404)
    ELSE parsed_result(cfg, store)

\* write_secret: the next stage stores the encoded value and echoes it, or
\* fails and stores nothing
parse_write_secret(cfg, index, n, store, secret, down_ok) ==
    LET executor == forward_next(index + 1, n)
        encoded_value == encode_secret_value(cfg, secret)
    IN  IF executor.stage = None THEN [store |-> store, result |-> PFailure(501)]
        ELSE IF ~down_ok THEN [store |-> store, result |-> DownFailure]
        ELSE [store |-> encoded_value, result |-> parsed_result(cfg, encoded_value)]

UpdatedValues == {Str(<<"1">>), Str(<<"a">>), Str(<<"{">>), PyInt}

\* the UpdatedSecret entries of a batch
UpdatedSecrets ==
    [key_id : {"id1", "id2"}, key : {"k"}, secret : UpdatedValues,
     rate_limit : {"rl"}, api_id_relation : {"bws_read:id"},
     api_key_relation : {"bws_read:key"}]

UpdateBatches == UNION {[1..k -> UpdatedSecrets] : k \in 0..MaxUpdate}

\* UpdatedSecret(...) with rate_limit and the relations left at their defaults
UpdatedSecretDefaults(secret, parsed_value) ==
    [key_id |-> secret.key_id, key |-> secret.key, secret |-> parsed_value,
     rate_limit |-> "None", api_id_relation |-> "", api_key_relation |-> ""]

\* the UpdatedSecret built for an entry whose value was parsed
UpdatedSecretOf(secret, parsed_value) ==
    [key_id |-> secret.key_id, key |-> secret.key, secret |-> parsed_value,
     rate_limit |-> secret.rate_limit,
     api_id_relation |-> secret.api_id_relation,
     api_key_relation |-> secret.api_key_relation]

RECURSIVE parsed_secrets(_, _)
\* the loop of secret_updated: an entry whose parsing raises ValueError is
\* skipped
parsed_secrets(cfg, secrets) ==
    IF secrets = <<>> THEN <<>>
    ELSE LET parsed_value == parse_secret_value(cfg, Head(secrets).secret)
             rest == parsed_secrets(cfg, Tail(secrets))
         IN  IF parsed_value.ok
             THEN <<UpdatedSecretOf(Head(secrets), parsed_value.value)>> \o rest
             ELSE rest

\* secret_updated: what the next reverse stage is called with, if there is one
parse_secret_updated(cfg, index, n, secrets) ==
    LET executor == reverse_next(index - 1, n) IN
    IF executor.stage # None
    THEN [called |-> TRUE, forwarded |-> parsed_secrets(cfg, secrets)]
    ELSE [called |-> FALSE, forwarded |-> <<>>]

ParseWriteSecret(secret, down_ok) ==
    LET r == parse_write_secret(parse_config, parse_index, chain_len, parse_store,
                                secret, down_ok) IN
    /\ parse_store' = r.store
    /\ parse_last' = [ParseNoLast EXCEPT !.op = "write_secret",
                         !.written = IF r.result.code \in {501, 429} THEN NoValue ELSE secret,
                         !.result = r.result]
    /\ UNCHANGED <<parse_config, parse_index>>

\* a read keeps the record of the value last written
ParseGetSecret(op, down_ok) ==
    /\ parse_last' = [ParseNoLast EXCEPT !.op = op,
                         !.written = parse_last.written,
                         !.result = parse_get_secret(parse_config, parse_index,
                                        chain_len, parse_store, down_ok)]
    /\ UNCHANGED <<parse_config, parse_index, parse_store>>

ParseSecretUpdated(secrets) ==
    LET r == parse_secret_updated(parse_config, parse_index, chain_len, secrets) IN
    /\ parse_last' = [ParseNoLast EXCEPT !.op = "secret_updated", !.batch = secrets,
                         !.forwarded = r.forwarded, !.called = r.called]
    /\ UNCHANGED <<parse_config, parse_index, parse_store>>

parseFrame == UNCHANGED <<cacheVars, now, concVars, rlVars, bwsVars, genVars, coreVars>>

ParseNext ==
    \/ \E secret \in WriteValues, down_ok \in BOOLEAN :
          ParseWriteSecret(secret, down_ok) /\ parseFrame
    \/ \E down_ok \in BOOLEAN : ParseGetSecret("get_secret_id", down_ok) /\ parseFrame
    \/ \E down_ok \in BOOLEAN : ParseGetSecret("get_secret_key", down_ok) /\ parseFrame
    \/ \E secrets \in UpdateBatches : ParseSecretUpdated(secrets) /\ parseFrame

SpecParse == ParseInit /\ [][ParseNext]_vars

\* C19: with encode_on_write = parse_on_read = json, reading after a write
\* of a JSON-serializable value v that the next stage stored returns a
\* Secret whose value equals v.
C19_JsonRoundTrip ==
    ( /\ parse_config.encode_on_write = "json" /\ parse_config.parse_on_read = "json"
      /\ parse_last.op \in {"get_secret_id", "get_secret_key"}
      /\ parse_last.written # NoValue /\ serializable(parse_last.written)
      /\ parse_last.result # DownFailure )
    => parse_last.result = PSecret(parse_last.written)

\* the entries of the last batch whose value parses
kept_of(cfg, batch) ==
    {i \in 1..Len(batch) : parse_secret_value(cfg, batch[i].secret).ok}

\* C20: when there is a next reverse stage, secret_updated calls it with
\* exactly the entries of the batch whose value parses (an unparseable text
\* counts as parsed under parse_errors_as_string), in their order, each with
\* its parsed value and its other fields unchanged; the other entries are
\* left out and the call is still made.
C20_UpdatedEntriesFiltered ==
    parse_last.op = "secret_updated" =>
        LET batch == parse_last.batch
            forwarded == parse_last.forwarded
            kept == kept_of(parse_config, batch)
            rank(i) == Cardinality({k \in kept : k <= i})
        IN  /\ parse_last.called = (parse_index > 0)
            /\ parse_last.called =>
                /\ Len(forwarded) = Cardinality(kept)
                /\ \A i \in kept :
                      forwarded[rank(i)] =
                          [batch[i] EXCEPT
                              !.secret = parse_secret_value(parse_config, batch[i].secret).value]
                /\ parse_config.parse_errors_as_string => Len(forwarded) = Len(batch)
                /\ \A i \in (1..Len(batch)) \ kept :
                      /\ ~parse_config.parse_errors_as_string
                      /\ parse_config.parse_on_read # "none"
                      /\ batch[i].secret.t = "str"

\* C20 happens: of a batch of two entries the first did not parse and was
\* left out, the second was forwarded to the next reverse stage
C20_Witness ==
    /\ parse_last.op = "secret_updated" /\ parse_last.called
    /\ ~parse_config.parse_errors_as_string
    /\ Len(parse_last.batch) = 2 /\ Len(parse_last.forwarded) = 1
    /\ kept_of(parse_config, parse_last.batch) = {2}
    /\ parse_last.forwarded[1].key_id = parse_last.batch[2].key_id
    /\ parse_last.forwarded[1].secret = PyInt
    /\ parse_last.batch[2].secret = Str(<<"1">>)

-----------------------------------------------------------------------------
(* Part VII: the chain core, core/chain.  A stage instance is a name; the  *)
(* same instance may be added to a chain more than once.  The chain is     *)
(* built before any executor runs on it (ApiBuilder.load_stages registers  *)
(* a chain after its last add_stage).                                      *)

Instances == {"s1", "s2"}
\* an object that is no instance of the chain's stage_class
NotAStage == "not_a_stage"
Objects == Instances \cup {NotAStage}

\* Chain.add_stage: the list after the call; TypeError leaves it as it was
add_stage(chain, stage) ==
    IF stage \notin Instances
    THEN [stages |-> chain, raised |-> TRUE]
    ELSE [stages |-> Append(chain, stage), raised |-> FALSE]

\* Chain.add_stage of an instance a builder returned
add_stage_built(chain, stage) == Append(chain, stage)

\* Chain.get_stages(index) for an index of the list
get_stages(chain, index) == chain[index + 1]

\* Chain.get_stage_index: the first position holding this very instance;
\* ValueError if there is none
get_stage_index(chain, stage) ==
    IF \E idx \in 0..(Len(chain) - 1) : chain[idx + 1] = stage
    THEN [result |-> CHOOSE idx \in 0..(Len(chain) - 1) :
                        /\ chain[idx + 1] = stage
                        /\ \A before \in 0..(idx - 1) : chain[before + 1] # stage,
          raised |-> FALSE]
    ELSE [result |-> None, raised |-> TRUE]

\* ForwardChainExecutor.__init__ / ReverseChainExecutor.__init__
new_executor(kind, current_index, n) ==
    [kind |-> kind, created_with |-> current_index,
     current_index |-> IF kind = "forward" THEN current_index
                       ELSE reverse_init(current_index, n)]

\* next() of an executor: the stage handed out and the new position
executor_next(e, n) ==
    IF e.kind = "forward" THEN forward_next(e.current_index, n)
    ELSE reverse_next(e.current_index, n)

\* copy(): a new executor constructed with the current_index of this one
executor_copy(e, n) == new_executor(e.kind, e.current_index, n)

AddStage(stage) ==
    /\ chain_executor = NoExecutor
    /\ Len(stages) < MaxStages
    /\ stages' = add_stage(stages, stage).stages
    /\ index_last' = [NoIndex EXCEPT !.op = "add_stage", !.stage = stage,
                         !.raised = add_stage(stages, stage).raised]
    /\ UNCHANGED <<chain_executor, yielded, copy_last>>

\* get_stage_index(get_stages(i)) for an index i of the chain
IndexOfStageAt(i) ==
    /\ i < Len(stages)
    /\ LET r == get_stage_index(stages, get_stages(stages, i)) IN
       index_last' = [op |-> "index_of_stage_at", i |-> i,
                      stage |-> get_stages(stages, i),
                      result |-> r.result, raised |-> r.raised]
    /\ UNCHANGED <<stages, chain_executor, yielded, copy_last>>

GetStageIndex(stage) ==
    /\ LET r == get_stage_index(stages, stage) IN
       index_last' = [op |-> "get_stage_index", i |-> 0, stage |-> stage,
                      result |-> r.result, raised |-> r.raised]
    /\ UNCHANGED <<stages, chain_executor, yielded, copy_last>>

NewExecutor(kind, current_index) ==
    /\ chain_executor = NoExecutor
    /\ chain_executor' = new_executor(kind, current_index, Len(stages))
    /\ UNCHANGED <<stages, yielded, copy_last, index_last>>

ExecutorNext ==
    /\ chain_executor # NoExecutor
    /\ Len(yielded) < MaxNext
    /\ LET r == executor_next(chain_executor, Len(stages)) IN
       /\ chain_executor' = [chain_executor EXCEPT !.current_index = r.current_index]
       /\ yielded' = Append(yielded, r.stage)
    /\ copy_last' = NoCopy
    /\ UNCHANGED <<stages, index_last>>

\* executor.copy().next(): the copy is advanced, the executor is not touched
CopyNext ==
    /\ chain_executor # NoExecutor
    /\ LET copied == executor_copy(chain_executor, Len(stages)) IN
       copy_last' = [called |-> TRUE,
                     result |-> executor_next(copied, Len(stages)).stage,
                     original |-> chain_executor.current_index]
    /\ UNCHANGED <<stages, chain_executor, yielded, index_last>>

chainFrame == UNCHANGED <<cacheVars, now, concVars, rlVars, bwsVars, genVars, parseVars, buildVars, extraVars>>

ChainInit ==
    /\ token_cache = EmptyCache
    /\ ttl_seconds = MaxTtl
    /\ invalidate_on_upstream_error = TRUE
    /\ last = NoLast
    /\ now = 0
    /\ ConcAtRest
    /\ RLAtRest
    /\ StagesAtRest

ChainNext ==
    \/ \E stage \in Objects : AddStage(stage) /\ chainFrame
    \/ \E i \in 0..(MaxStages - 1) : IndexOfStageAt(i) /\ chainFrame
    \/ \E stage \in Objects : GetStageIndex(stage) /\ chainFrame
    \/ \E current_index \in 0..MaxStages : NewExecutor("forward", current_index) /\ chainFrame
    \/ \E current_index \in (0 - 1)..MaxStages :
          NewExecutor("reverse", current_index) /\ chainFrame
    \/ ExecutorNext /\ chainFrame
    \/ CopyNext /\ chainFrame

SpecChain == ChainInit /\ [][ChainNext]_vars

\* C21: the next() calls of a forward executor created at index 0 on a chain
\* of n stages return the stages 0, 1, ..., n-1 in this order, and every
\* call after them returns None.
C21_ForwardYieldsInOrder ==
    (chain_executor.kind = "forward" /\ chain_executor.created_with = 0) =>
        \A k \in 1..Len(yielded) :
            yielded[k] = IF k <= Len(stages) THEN k - 1 ELSE None

\* C21 happens: a forward executor went through a chain of two or more
\* stages and was then asked twice more
C21_Witness ==
    /\ chain_executor.kind = "forward" /\ chain_executor.created_with = 0
    /\ Len(stages) >= 2 /\ Len(yielded) >= Len(stages) + 2
    /\ yielded[Len(stages)] = Len(stages) - 1
    /\ yielded[Len(yielded)] = None

\* the first stage a reverse executor created with this index hands out
reverse_start(created_with, n) ==
    IF created_with = 0 - 1 THEN n - 1 ELSE created_with

\* C22: the next() calls of a reverse executor created with the default
\* index return the stages n-1, ..., 0 in this order and None from then on;
\* one created at index i of the chain returns i, ..., 0 and None from then
\* on; a call that returned None is followed by None only.
C22_ReverseYieldsInOrder ==
    chain_executor.kind = "reverse" =>
        /\ reverse_start(chain_executor.created_with, Len(stages)) < Len(stages) =>
              \A k \in 1..Len(yielded) :
                  yielded[k] =
                      IF k <= reverse_start(chain_executor.created_with, Len(stages)) + 1
                      THEN reverse_start(chain_executor.created_with, Len(stages)) + 1 - k
                      ELSE None
        /\ \A k \in 1..Len(yielded) :
              yielded[k] = None => \A j \in k..Len(yielded) : yielded[j] = None

\* C22 happens: a reverse executor created with the default index went
\* through a chain of two or more stages and was then asked twice more
C22_Witness ==
    /\ chain_executor.kind = "reverse" /\ chain_executor.created_with = 0 - 1
    /\ Len(stages) >= 2 /\ Len(yielded) >= Len(stages) + 2
    /\ yielded[1] = Len(stages) - 1 /\ yielded[Len(stages)] = 0
    /\ yielded[Len(yielded)] = None

\* C23: copy().next() returns what next() of the executor would return,
\* at every position next() calls lead to, and leaves the executor where
\* it was.
C23_CopyReturnsSame ==
    copy_last.called =>
        /\ copy_last.result = executor_next(chain_executor, Len(stages)).stage
        /\ chain_executor.current_index = copy_last.original

\* C24: get_stage_index(get_stages(i)) = i for every index i of a chain
\* built by add_stage calls; get_stage_index of a stage never added raises.
C24_IndexRoundTrip ==
    /\ index_last.op = "index_of_stage_at" =>
          ~index_last.raised /\ index_last.result = index_last.i
    /\ (index_last.op = "get_stage_index" /\ index_last.stage \notin Range(stages)) =>
          index_last.raised

-----------------------------------------------------------------------------
(* Part VIII: assembly.  One api plugin, "gsecret", has a module; its       *)
(* stages "cache" and "generator" have a module that registers the stage's *)
(* builder when it is first imported; any other stage is known only if it  *)
(* was registered by a register_stage call.  A LoadedConfig is the list of *)
(* its apis, each with the list of its chains, each with the list of its   *)
(* step names.                                                             *)

ApiNames == {"gsecret", "missing"}
ChainNames == {"c1", "c2"}
StepNames == {"cache", "generator", "custom"}
\* the stage names whose module stages.gsecret.<name> exists
StageModules == {"cache", "generator"}
\* the names register_stage is called with from outside the stage modules
RegisteredNames == {"cache", "custom"}
\* the builder a stage module registers
module_builder(name) == "builder_of_" \o name
\* builders handed to register_stage; the last one has no build method
Builders == {"b1", "b2", "not_a_builder"}

\* Interface.register_stage that rebinds a registered name
register_stage_rebinding(table, name, stage) ==
    IF stage = "not_a_builder"
    THEN [stages |-> table, raised |-> "TypeError"]
    ELSE [stages |-> [n \in DOMAIN table \cup {name} |->
                         IF n = name THEN stage ELSE table[n]],
          raised |-> ""]

\* Interface.register_stage: the table after the call and what it raised
register_stage(table, name, stage) ==
    IF name \in DOMAIN table
    THEN [stages |-> table, raised |-> "ValueError"]
    ELSE IF stage = "not_a_builder"
    THEN [stages |-> table, raised |-> "TypeError"]
    ELSE [stages |-> [n \in DOMAIN table \cup {name} |->
                         IF n = name THEN stage ELSE table[n]],
          raised |-> ""]

\* Importer.import_stage_plugin: importing the module of a stage runs its
\* register_stage call the first time; the table and the modules afterwards
import_stage_plugin(table, modules, name) ==
    IF name \in modules
    THEN [stages |-> table, modules |-> modules,
          raised |-> IF name \in DOMAIN table THEN "" ELSE "ImportError"]
    ELSE IF name \notin StageModules
    THEN [stages |-> table, modules |-> modules, raised |-> "ModuleNotFoundError"]
    ELSE LET r == register_stage(table, name, module_builder(name)) IN
         IF r.raised # ""
         THEN [stages |-> r.stages, modules |-> modules, raised |-> r.raised]
         ELSE [stages |-> r.stages, modules |-> modules \cup {name}, raised |-> ""]

\* stage_builder.build(stage_config, chain): a new instance for this step
build(stage_builder, chain_name, position) ==
    [builder |-> stage_builder, chain |-> chain_name, step |-> position]

\* ChainController.add_chain that is handed the chain before its steps
add_chain_empty(chains, name, chain) ==
    [n \in DOMAIN chains \cup {name} |-> IF n = name THEN <<>> ELSE chains[n]]

\* ChainController.add_chain: binds the chain to its name
add_chain(chains, name, chain) ==
    [n \in DOMAIN chains \cup {name} |-> IF n = name THEN chain ELSE chains[n]]

\* the lists of at most n distinct chain names with their steps
ChainConfigs ==
    {<<>>}
    \cup {<<[name |-> n1, steps |-> s1]>> :
            n1 \in ChainNames, s1 \in UNION {[1..j -> StepNames] : j \in 0..MaxSteps}}
    \cup {<<[name |-> n[1], steps |-> s1], [name |-> n[2], steps |-> s2]>> :
            n \in {m \in ChainNames \X ChainNames : m[1] # m[2] /\ MaxChains >= 2},
            s1 \in UNION {[1..j -> StepNames] : j \in 0..MaxSteps},
            s2 \in UNION {[1..j -> StepNames] : j \in 0..MaxSteps}}

\* LoadedConfig: the gsecret api, alone or with an api that has no module
LoadedConfigs ==
    {<<[api |-> "gsecret", chains |-> cs]>> : cs \in ChainConfigs}
    \cup {<<[api |-> "missing", chains |-> <<>>], [api |-> "gsecret", chains |-> cs]>> :
            cs \in ChainConfigs}
    \cup {<<[api |-> "gsecret", chains |-> cs], [api |-> "missing", chains |-> <<>>]>> :
            cs \in ChainConfigs}

RegisterStage(name, stage) ==
    /\ load.pc = "idle"
    /\ interface_stages' = register_stage(interface_stages, name, stage).stages
    /\ register_last' = [name |-> name, stage |-> stage,
                         raised |-> register_stage(interface_stages, name, stage).raised,
                         before |-> interface_stages]
    /\ UNCHANGED <<imported_modules, controller_chains, load>>

\* load_stages(config) is called
LoadStages(config) ==
    /\ load.pc = "idle"
    /\ load' = [LoadIdle EXCEPT !.pc = "api", !.config = config, !.a = 1]
    /\ register_last' = NoRegister
    /\ UNCHANGED <<interface_stages, imported_modules, controller_chains>>

\* for api_name in config.apis(): import_api, get_api
LoadApi ==
    /\ load.pc = "api"
    /\ load' = IF load.a > Len(load.config) THEN [load EXCEPT !.pc = "done"]
               ELSE IF load.config[load.a].api # "gsecret"
               THEN [load EXCEPT !.pc = "raised"]
               ELSE [load EXCEPT !.pc = "chain", !.c = 1]
    /\ UNCHANGED <<interface_stages, imported_modules, controller_chains, register_last>>

\* for chain_name in config.chains(api_name): chain = Chain(...)
LoadChain ==
    /\ load.pc = "chain"
    /\ load' = IF load.c > Len(load.config[load.a].chains)
               THEN [load EXCEPT !.pc = "api", !.a = load.a + 1]
               ELSE [load EXCEPT !.pc = "step", !.k = 1, !.chain = <<>>]
    /\ UNCHANGED <<interface_stages, imported_modules, controller_chains, register_last>>

\* one pass of the loop over the steps of the chain
LoadStep ==
    /\ load.pc = "step"
    /\ load.k <= Len(load.config[load.a].chains[load.c].steps)
    /\ LET chain_cfg == load.config[load.a].chains[load.c]
           stage_name == chain_cfg.steps[load.k]
           imp == import_stage_plugin(interface_stages, imported_modules, stage_name)
       IN  /\ interface_stages' = imp.stages
           /\ imported_modules' = imp.modules
           /\ load' = IF imp.raised # "" \/ stage_name \notin DOMAIN imp.stages
                      THEN [load EXCEPT !.pc = "raised"]
                      ELSE [load EXCEPT !.k = load.k + 1,
                                !.chain = add_stage_built(load.chain,
                                    build(imp.stages[stage_name], chain_cfg.name, load.k))]
    /\ UNCHANGED <<controller_chains, register_last>>

\* after the last step: api.chain_controller.add_chain(chain)
LoadAddChain ==
    /\ load.pc = "step"
    /\ load.k > Len(load.config[load.a].chains[load.c].steps)
    /\ controller_chains' = add_chain(controller_chains,
                                      load.config[load.a].chains[load.c].name, load.chain)
    /\ load' = [load EXCEPT !.pc = "chain", !.c = load.c + 1]
    /\ UNCHANGED <<interface_stages, imported_modules, register_last>>

buildFrame == UNCHANGED <<cacheVars, now, concVars, rlVars, bwsVars, genVars, parseVars, chainVars, extraVars>>

BuildInit ==
    /\ token_cache = EmptyCache
    /\ ttl_seconds = MaxTtl
    /\ invalidate_on_upstream_error = TRUE
    /\ last = NoLast
    /\ now = 0
    /\ ConcAtRest
    /\ RLAtRest
    /\ StagesAtRest

BuildNext ==
    \/ \E name \in RegisteredNames, stage \in Builders :
          RegisterStage(name, stage) /\ buildFrame
    \/ \E config \in LoadedConfigs : LoadStages(config) /\ buildFrame
    \/ LoadApi /\ buildFrame
    \/ LoadChain /\ buildFrame
    \/ LoadStep /\ buildFrame
    \/ LoadAddChain /\ buildFrame

SpecBuild == BuildInit /\ [][BuildNext]_vars

\* the stages load_stages gives the chain of this configuration
expected_chain(chain_cfg) ==
    [k \in 1..Len(chain_cfg.steps) |->
        build(interface_stages[chain_cfg.steps[k]], chain_cfg.name, k)]

\* the chains of the configuration being loaded
configured_chains ==
    UNION {Range(load.config[a].chains) :
              a \in {x \in 1..Len(load.config) : load.config[x].api = "gsecret"}}

\* C25: when load_stages has succeeded, the chain controller holds for every
\* configured chain the instances its builders returned, one per step and
\* in the order of the steps; at every moment a chain the controller holds
\* has all its steps, and the chain under construction is not in it.
C25_ChainsAssembledInOrder ==
    /\ load.pc = "done" =>
          \A chain_cfg \in configured_chains :
              /\ chain_cfg.name \in DOMAIN controller_chains
              /\ controller_chains[chain_cfg.name] = expected_chain(chain_cfg)
    /\ \A name \in DOMAIN controller_chains :
          \E chain_cfg \in configured_chains :
              /\ chain_cfg.name = name
              /\ \A k \in 1..Len(chain_cfg.steps) : chain_cfg.steps[k] \in DOMAIN interface_stages
              /\ controller_chains[name] = expected_chain(chain_cfg)
    /\ load.pc = "step" =>
          load.config[load.a].chains[load.c].name \notin DOMAIN controller_chains

\* C25 happens: load_stages succeeded on two chains, one of two steps
C25_Witness ==
    /\ load.pc = "done"
    /\ Cardinality(DOMAIN controller_chains) = 2
    /\ \E name \in DOMAIN controller_chains :
          /\ Len(controller_chains[name]) = 2
          /\ controller_chains[name][1].builder # controller_chains[name][2].builder

\* C27: register_stage raises when the name is registered or the builder is
\* no ChainStageBuilder, and then leaves the table as it was; otherwise it
\* adds the binding of the name to the builder and nothing else.
C27_RegisterStage ==
    register_last.name # "" =>
        IF register_last.name \in DOMAIN register_last.before
           \/ register_last.stage = "not_a_builder"
        THEN register_last.raised # "" /\ interface_stages = register_last.before
        ELSE /\ register_last.raised = ""
             /\ DOMAIN interface_stages = DOMAIN register_last.before \cup {register_last.name}
             /\ interface_stages[register_last.name] = register_last.stage
             /\ \A n \in DOMAIN register_last.before :
                   interface_stages[n] = register_last.before[n]

\* C27 happens: a second builder was refused for a registered name, which
\* stays bound to the first
C27_Witness ==
    /\ register_last.raised = "ValueError"
    /\ register_last.stage \in {"b1", "b2"}
    /\ register_last.name \in DOMAIN interface_stages
    /\ interface_stages[register_last.name] # register_last.stage

-----------------------------------------------------------------------------
(* Part IX: a lookup passed down a chain.  Each stage's get_secret_id and  *)
(* get_secret_key either answers or takes the next stage from the shared   *)
(* ForwardChainExecutor and calls it; the operators below give, stage by   *)
(* stage, the call made on the next stage.                                 *)

StageKinds == {"cache", "rate_limiter", "bws_write", "bws_read", "generator", "parse_secret"}
LookupOps == {"get_secret_id", "get_secret_key"}

\* the call a handler makes on the next stage: operation and argument
Forwarded(op, arg) == [op |-> op, arg |-> arg, raised |-> ""]
\* the handler raised before calling the next stage
NotForwarded(exc) == [op |-> "", arg |-> "", raised |-> exc]

\* CacheGSecretExecutor.get_secret_id / get_secret_key on a miss
cache_forward(op, arg) ==
    IF op = "get_secret_id" THEN Forwarded("get_secret_id", arg)
    ELSE Forwarded("get_secret_key", arg)

\* RateLimiterGSecretExecutor.get_secret_id / get_secret_key after the delay
rate_limiter_forward(op, arg) ==
    IF op = "get_secret_id" THEN Forwarded("get_secret_id", arg)
    ELSE Forwarded("get_secret_key", arg)

\* BwsWriteGSecretExecutor.get_secret_id / get_secret_key: both end in
\* executor.get_secret_id(...)
bws_write_forward(op, arg) ==
    IF op = "get_secret_id" THEN Forwarded("get_secret_id", arg)
    ELSE Forwarded("get_secret_id", arg)

\* BwsReadGSecretExecutor.get_secret_id / get_secret_key when the client has
\* no secret: the unpacking of the next stage raises before any call
bws_read_forward(op, arg, executor) ==
    IF unpack_raises(executor) THEN NotForwarded("TypeError")
    ELSE Forwarded("get_secret_id", arg)

\* GeneratorGSecretExecutor.get_secret_id, and get_secret_key's probe of the
\* chain (overwrite_existing off)
generator_forward(op, arg) ==
    IF op = "get_secret_id" THEN Forwarded("get_secret_id", arg)
    ELSE Forwarded("get_secret_key", arg)

\* ParseSecretGSecretExecutor.get_secret_id / get_secret_key
parse_secret_forward(op, arg) ==
    IF op = "get_secret_id" THEN Forwarded("get_secret_id", arg)
    ELSE Forwarded("get_secret_key", arg)

\* the call the stage of this kind makes on the stage `executor` hands out
stage_forward(kind, op, arg, executor) ==
    CASE kind = "cache" -> cache_forward(op, arg)
      [] kind = "rate_limiter" -> rate_limiter_forward(op, arg)
      [] kind = "bws_write" -> bws_write_forward(op, arg)
      [] kind = "bws_read" -> bws_read_forward(op, arg, executor)
      [] kind = "generator" -> generator_forward(op, arg)
      [] kind = "parse_secret" -> parse_secret_forward(op, arg)

\* the stages that may return without calling the next stage: a cache hit,
\* a timed-out delay, a secret or an error of the client, a generated secret
AnsweringKinds == {"cache", "rate_limiter", "bws_read", "generator"}

DispatchChains == UNION {[1..n -> StageKinds] : n \in 1..MaxStages}
LookupArgs(op) == IF op = "get_secret_id" THEN Ids ELSE Keys

\* the api calls the first stage of the chain
DispatchRequest(op, arg) ==
    /\ dispatch_state = "idle"
    /\ LET executor == forward_next(0, Len(dispatch_chain)) IN
       /\ executor.stage # None
       /\ dispatch_calls' = <<Forwarded(op, arg)>>
    /\ dispatch_state' = "running"
    /\ UNCHANGED dispatch_chain

\* the stage that holds the call takes the next stage from the executor and
\* calls it, or raises doing so
DispatchForward ==
    /\ dispatch_state = "running"
    /\ LET n == Len(dispatch_chain)
           i == Len(dispatch_calls)
           received == dispatch_calls[i]
           executor == forward_next(i, n)
           made == stage_forward(dispatch_chain[i], received.op, received.arg, executor)
       IN /\ executor.stage # None
          /\ IF made.raised # ""
             THEN dispatch_state' = "raised" /\ UNCHANGED dispatch_calls
             ELSE dispatch_calls' = Append(dispatch_calls, made)
                  /\ UNCHANGED dispatch_state
    /\ UNCHANGED dispatch_chain

\* the stage that holds the call returns a result: its own, or the failure
\* of a handler that finds no next stage
DispatchAnswer ==
    /\ dispatch_state = "running"
    /\ LET n == Len(dispatch_chain)
           i == Len(dispatch_calls)
       IN \/ dispatch_chain[i] \in AnsweringKinds
          \/ forward_next(i, n).stage = None
    /\ dispatch_state' = "answered"
    /\ UNCHANGED <<dispatch_chain, dispatch_calls>>

\* the result, or the exception, is back at the api
DispatchReturn ==
    /\ dispatch_state \in {"answered", "raised"}
    /\ dispatch_state' = "idle"
    /\ dispatch_calls' = <<>>
    /\ UNCHANGED dispatch_chain

dispatchFrame == UNCHANGED <<cacheVars, now, concVars, rlVars, bwsVars, genVars, parseVars,
                             chainVars, buildVars, limiterVars, lateVars>>

DispatchInit ==
    /\ CacheInit
    /\ now = 0
    /\ ConcAtRest
    /\ RLAtRest
    /\ BwsAtRest /\ GenAtRest /\ ParseAtRest
    /\ ChainAtRest /\ BuildAtRest /\ LimiterAtRest /\ LateAtRest
    /\ dispatch_chain \in DispatchChains
    /\ dispatch_calls = <<>>
    /\ dispatch_state = "idle"

DispatchNext ==
    \/ \E op \in LookupOps : \E arg \in LookupArgs(op) : DispatchRequest(op, arg) /\ dispatchFrame
    \/ DispatchForward /\ dispatchFrame
    \/ DispatchAnswer /\ dispatchFrame
    \/ DispatchReturn /\ dispatchFrame

SpecDispatch == DispatchInit /\ [][DispatchNext]_vars

\* C28: forwarding preserves the operation: every stage of the chain that
\* received the lookup from the stage before it received the operation and
\* the argument the api asked the first stage for; in particular a
\* get_secret_key(key) never arrives as get_secret_id(key).
C28_ForwardingPreservesOperation ==
    \A i \in 1..Len(dispatch_calls) :
        /\ dispatch_calls[i].op = dispatch_calls[1].op
        /\ dispatch_calls[i].arg = dispatch_calls[1].arg

-----------------------------------------------------------------------------
(* Part X: ApiRateLimiter of bws_read's client controller.  A window string *)
(* is a sequence of characters: decimal digits followed by one unit         *)
(* character, as in "10s" or "1m".                                          *)

\* the digits the window strings of the model are written with
Digits == {"0", "1"}
Units == {"s", "m", "h", "d"}

\* the strings of one to MaxDigits digits followed by a unit character
WindowStrings ==
    {number \o <<unit>> : number \in UNION {[1..n -> Digits] : n \in 1..MaxDigits},
                          unit \in Units}

digit_value(c) ==
    CASE c = "0" -> 0 [] c = "1" -> 1 [] c = "2" -> 2 [] c = "3" -> 3 [] c = "4" -> 4
      [] c = "5" -> 5 [] c = "6" -> 6 [] c = "7" -> 7 [] c = "8" -> 8 [] c = "9" -> 9

\* int(text) of a string of decimal digits
RECURSIVE int(_)
int(text) ==
    IF text = <<>> THEN 0
    ELSE 10 * int(SubSeq(text, 1, Len(text) - 1)) + digit_value(text[Len(text)])

\* ApiRateLimiter.trigger with a strict comparison
trigger_strict(self, seconds, remaining, at) ==
    IF remaining > self.remaining
    THEN [max |-> remaining + 1, window |-> seconds, remaining |-> remaining,
          reset |-> at + seconds]
    ELSE [self EXCEPT !.remaining = remaining]

\* ApiRateLimiter._rt_window_seconds: match (int(window[:-1]), window[-1])
rt_window_seconds(window) ==
    LET x == int(SubSeq(window, 1, Len(window) - 1))
        unit == window[Len(window)]
    IN CASE unit = "s" -> x * 1
         [] unit = "m" -> x * 60
         [] unit = "h" -> x * 3600
         [] OTHER -> 0

\* ApiRateLimiter.trigger at time `at`, `seconds` being
\* self._rt_window_seconds(window)
trigger(self, seconds, remaining, at) ==
    IF remaining >= self.remaining
    THEN [max |-> remaining + 1, window |-> seconds, remaining |-> remaining,
          reset |-> at + seconds]
    ELSE [self EXCEPT !.remaining = remaining]

\* ApiRateLimiter(): a limiter for a secret id not seen before
NewApiRateLimiter ==
    /\ trigger_last.called
    /\ api_rate_limiter' = NewLimiter(now)
    /\ trigger_last' = NoTrigger
    /\ UNCHANGED now

\* rate_limiter.trigger(window=..., remaining=...)
Trigger(window, remaining) ==
    /\ api_rate_limiter' = trigger(api_rate_limiter, rt_window_seconds(window), remaining, now)
    /\ trigger_last' = [called |-> TRUE, window |-> window, remaining |-> remaining,
                        at |-> now, before |-> api_rate_limiter]
    /\ UNCHANGED now

\* time passes between two calls
LimiterTick ==
    /\ now < MaxTime
    /\ now' = now + 1
    /\ UNCHANGED limiterVars

limiterFrame == UNCHANGED <<cacheVars, concVars, rlVars, bwsVars, genVars, parseVars,
                            chainVars, buildVars, dispatchVars, lateVars>>

LimiterInit ==
    /\ token_cache = EmptyCache
    /\ ttl_seconds = MaxTtl
    /\ invalidate_on_upstream_error = TRUE
    /\ last = NoLast
    /\ now = 0
    /\ ConcAtRest
    /\ RLAtRest
    /\ StagesAtRest

LimiterNext ==
    \/ \E window \in WindowStrings, remaining \in 0..MaxRemaining :
          Trigger(window, remaining) /\ limiterFrame
    \/ NewApiRateLimiter /\ limiterFrame
    \/ LimiterTick /\ limiterFrame

SpecLimiter == LimiterInit /\ [][LimiterNext]_vars

\* the seconds a unit character stands for, 0 for an unknown one
unit_seconds(unit) ==
    CASE unit = "s" -> 1 [] unit = "m" -> 60 [] unit = "h" -> 3600 [] OTHER -> 0

\* C26: after trigger(window, r) the limiter's remaining is r; if r is at
\* least the previous remaining then max = r + 1, window is the window string
\* in seconds (0 for an unknown unit) and reset = now + window, otherwise max,
\* window and reset are what they were; and remaining < max after every
\* trigger of any sequence of triggers.
C26_Trigger ==
    trigger_last.called =>
        LET before == trigger_last.before
            r == trigger_last.remaining
            window == trigger_last.window
            seconds == int(SubSeq(window, 1, Len(window) - 1))
                          * unit_seconds(window[Len(window)])
        IN /\ api_rate_limiter.remaining = r
           /\ IF r >= before.remaining
              THEN /\ api_rate_limiter.max = r + 1
                   /\ api_rate_limiter.window = seconds
                   /\ api_rate_limiter.reset = trigger_last.at + seconds
              ELSE /\ api_rate_limiter.max = before.max
                   /\ api_rate_limiter.window = before.window
                   /\ api_rate_limiter.reset = before.reset
           /\ api_rate_limiter.remaining < api_rate_limiter.max

\* a trigger with a smaller remaining than before, on a limiter whose window
\* of minutes was set at an earlier time by an earlier trigger
C26_Witness ==
    /\ trigger_last.called
    /\ trigger_last.remaining < trigger_last.before.remaining
    /\ api_rate_limiter.window = 600
    /\ api_rate_limiter.reset < trigger_last.at + 600
    /\ api_rate_limiter.max = 3

-----------------------------------------------------------------------------
(* Part XI: BwsClientController.get_client called by the threads            *)
(* 1..MaxCallers, all with the same token.  The controller holds no lock:   *)
(* a step is one statement of get_client, of BwsClient.ensure_callback, or  *)
(* the sync loop taking sync_all.  A BwsClient is named by its position in  *)
(* bws_clients; a sync callback by the index of its bws_read stage.         *)

Callers == 1..MaxCallers
Callbacks == {0, 1}
Regions == {"eu", "us"}

\* BwsClient.__init__; enqueued counts, callback by callback, the appends to
\* sync_all since the client was made
NewBwsClient == [sync_callbacks |-> <<>>, sync_all |-> <<>>,
                 enqueued |-> [callback \in Callbacks |-> 0]]

\* how often x occurs in the list
occurrences(list, x) == Cardinality({i \in DOMAIN list : list[i] = x})

\* ensure_callback registering whatever it is handed
callback_in_never(callback, callbacks) == FALSE

\* ensure_callback: "callback not in self.sync_callbacks", negated
callback_in(callback, callbacks) == callback \in Range(callbacks)

\* a thread enters get_client(token, region, sync_callback)
GcCall(c, callback, region) ==
    /\ caller[c].pc = "idle"
    /\ caller' = [caller EXCEPT ![c] = [CallerIdle EXCEPT
                     !.pc = "check", !.callback = callback, !.region = region]]
    /\ UNCHANGED <<client_cache, region_map, bws_clients>>

\* if token_hash not in self._client_cache
GcCheck(c) ==
    /\ caller[c].pc = "check"
    /\ caller' = [caller EXCEPT ![c].pc = IF client_cache = 0 THEN "from_token" ELSE "get"]
    /\ UNCHANGED <<client_cache, region_map, bws_clients>>

\* BwsClient.from_token(...): a client is constructed, its kv cache
\* populated and its sync thread started
GcFromToken(c) ==
    /\ caller[c].pc = "from_token"
    /\ bws_clients' = Append(bws_clients, NewBwsClient)
    /\ caller' = [caller EXCEPT ![c].pc = "store_client", ![c].new = Len(bws_clients) + 1]
    /\ UNCHANGED <<client_cache, region_map>>

\* self._client_cache[token_hash] = ...
GcStoreClient(c) ==
    /\ caller[c].pc = "store_client"
    /\ client_cache' = caller[c].new
    /\ caller' = [caller EXCEPT ![c].pc = "store_region", ![c].new = 0]
    /\ UNCHANGED <<region_map, bws_clients>>

\* self._region_map[token_hash] = self._get_region_key(region)
GcStoreRegion(c) ==
    /\ caller[c].pc = "store_region"
    /\ region_map' = caller[c].region
    /\ caller' = [caller EXCEPT ![c].pc = "get"]
    /\ UNCHANGED <<client_cache, bws_clients>>

\* client = self._client_cache[token_hash] and the region check: KeyError
\* while the region of the token is not stored, ValueError on a mismatch
GcGet(c) ==
    /\ caller[c].pc = "get"
    /\ caller' = [caller EXCEPT ![c] =
          IF region_map = ""
          THEN [caller[c] EXCEPT !.pc = "done", !.raised = "KeyError"]
          ELSE IF region_map # caller[c].region
          THEN [caller[c] EXCEPT !.pc = "done", !.raised = "ValueError"]
          ELSE [caller[c] EXCEPT !.pc = "ensure", !.client = client_cache]]
    /\ UNCHANGED <<client_cache, region_map, bws_clients>>

\* ensure_callback: if callback not in self.sync_callbacks
EnsureCheck(c) ==
    /\ caller[c].pc = "ensure"
    /\ caller' = [caller EXCEPT ![c] =
          IF callback_in(caller[c].callback, bws_clients[caller[c].client].sync_callbacks)
          THEN [caller[c] EXCEPT !.pc = "done", !.returned = caller[c].client]
          ELSE [caller[c] EXCEPT !.pc = "append_callbacks"]]
    /\ UNCHANGED <<client_cache, region_map, bws_clients>>

\* ensure_callback: self.sync_callbacks.append(callback)
EnsureAppendCallbacks(c) ==
    /\ caller[c].pc = "append_callbacks"
    /\ bws_clients' = [bws_clients EXCEPT ![caller[c].client].sync_callbacks =
                          Append(@, caller[c].callback)]
    /\ caller' = [caller EXCEPT ![c].pc = "append_all"]
    /\ UNCHANGED <<client_cache, region_map>>

\* ensure_callback: self.sync_all.append(callback); get_client returns
EnsureAppendAll(c) ==
    /\ caller[c].pc = "append_all"
    /\ bws_clients' = [bws_clients EXCEPT
                          ![caller[c].client].sync_all = Append(@, caller[c].callback),
                          ![caller[c].client].enqueued[caller[c].callback] = @ + 1]
    /\ caller' = [caller EXCEPT ![c].pc = "done", ![c].added = TRUE,
                                ![c].returned = caller[c].client]
    /\ UNCHANGED <<client_cache, region_map>>

\* the handler that called get_client goes on and ends
GcReturn(c) ==
    /\ caller[c].pc = "done"
    /\ caller' = [caller EXCEPT ![c] = CallerIdle]
    /\ UNCHANGED <<client_cache, region_map, bws_clients>>

\* _sync_loop of client b: new_callbacks = self.sync_all.copy();
\* self.sync_all = [] under sync_lock
SyncTake(b) ==
    /\ bws_clients[b].sync_all # <<>>
    /\ bws_clients' = [bws_clients EXCEPT ![b].sync_all = <<>>]
    /\ UNCHANGED <<client_cache, region_map, caller>>

\* one statement of the get_client call of thread c
CallerStep(c) ==
    \/ \E callback \in Callbacks, region \in Regions : GcCall(c, callback, region)
    \/ GcCheck(c)
    \/ GcFromToken(c)
    \/ GcStoreClient(c)
    \/ GcStoreRegion(c)
    \/ GcGet(c)
    \/ EnsureCheck(c)
    \/ EnsureAppendCallbacks(c)
    \/ EnsureAppendAll(c)
    \/ GcReturn(c)

\* everything of the earlier parts at rest
EarlyAtRest ==
    /\ token_cache = EmptyCache
    /\ ttl_seconds = MaxTtl
    /\ invalidate_on_upstream_error = TRUE
    /\ last = NoLast
    /\ now = 0
    /\ ConcAtRest
    /\ RLAtRest
    /\ BwsAtRest /\ GenAtRest /\ ParseAtRest
    /\ ChainAtRest /\ BuildAtRest /\ DispatchAtRest /\ LimiterAtRest

earlyVars == <<cacheVars, now, concVars, rlVars, bwsVars, genVars, parseVars,
               chainVars, buildVars, dispatchVars, limiterVars>>

clientFrame == UNCHANGED <<earlyVars, lastVars>>

ClientInit == EarlyAtRest /\ LateAtRest

\* the threads interleave statement by statement
ClientNext ==
    \/ \E c \in Callers : CallerStep(c) /\ clientFrame
    \/ \E b \in DOMAIN bws_clients : SyncTake(b) /\ clientFrame

SpecClient == ClientInit /\ [][ClientNext]_vars

\* one get_client call at a time, next to the sync loop
ClientSeqNext ==
    \/ \E c \in Callers :
          /\ \A other \in Callers \ {c} : caller[other].pc = "idle"
          /\ CallerStep(c) /\ clientFrame
    \/ \E b \in DOMAIN bws_clients : SyncTake(b) /\ clientFrame

SpecClientSeq == ClientInit /\ [][ClientSeqNext]_vars

\* C33: one client per token under concurrency: however the get_client calls
\* of the threads interleave, at most one BwsClient is constructed for the
\* token and all calls that are returning return that client.
C33_OneClientPerToken ==
    /\ Len(bws_clients) <= 1
    /\ \A c1, c2 \in Callers :
          (caller[c1].returned # 0 /\ caller[c2].returned # 0)
              => caller[c1].returned = caller[c2].returned

\* C34: callback registration is idempotent: over any sequence of get_client
\* calls each callback is at most once in a client's sync_callbacks and has
\* been appended to its sync_all at most once in total.
C34_RegistrationIdempotent ==
    \A b \in DOMAIN bws_clients : \A callback \in Callbacks :
        /\ occurrences(bws_clients[b].sync_callbacks, callback) <= 1
        /\ bws_clients[b].enqueued[callback] <= 1

\* a call came back without registering: its callback was registered by an
\* earlier call and the sync loop has taken sync_all since
C34_Witness ==
    \E c \in Callers :
        /\ caller[c].pc = "done" /\ caller[c].returned # 0 /\ ~caller[c].added
        /\ bws_clients[caller[c].returned].sync_all = <<>>
        /\ bws_clients[caller[c].returned].enqueued[caller[c].callback] = 1
        /\ Len(bws_clients[caller[c].returned].sync_callbacks) = 2

-----------------------------------------------------------------------------
(* Part XII: the pacing and the lifetime of _sync_loop.  The loop is that  *)
(* of Part IV; sync_pace.delayed tells whether sync_rate_limiter.delay()   *)
(* ran since the last self.client.sync call, sync_pace.paced whether it    *)
(* had run when the last self.client.sync call was made.  An upstream sync *)
(* returns secrets, returns a null payload, or raises.                     *)

\* self._sync(...) is entered: self.client.sync is called
sync_called(pace) == [delayed |-> FALSE, paced |-> pace.delayed]

\* self.sync_rate_limiter.delay() ran
delay_called(pace) == [pace EXCEPT !.delayed = TRUE]

\* a request of Part IV; the first get_client constructs the client:
\* populate_kv_cache syncs and starts the thread, whose first statement is
\* delay()
PaceGetClientRaises(i, op, exc) ==
    BwsGetClientRaises(i, op, exc) /\ UNCHANGED sync_pace

PaceGetClient(i, op) ==
    /\ BwsGetClient(i, op)
    /\ sync_pace' = IF sync_thread.pc = "not_started"
                    THEN delay_called(sync_called(sync_pace)) ELSE sync_pace

PaceEnsureCallback == BwsEnsureCallback /\ UNCHANGED sync_pace

PaceLookup(outcome, answer) == BwsLookup(outcome, answer) /\ UNCHANGED sync_pace

PaceSyncCopy == SyncCopy /\ UNCHANGED sync_pace

PaceSyncReset == SyncReset /\ UNCHANGED sync_pace

\* secrets = self._sync(epoch); "if secrets is None: continue"
PaceSyncFull(is_null) == SyncFull(is_null) /\ sync_pace' = sync_called(sync_pace)

\* the callbacks of new_callbacks, then delay()
PaceSyncFullDeliver ==
    /\ SyncFullDeliver
    /\ sync_pace' = IF sync_thread'.pc = "inc_sync"
                    THEN delay_called(sync_pace) ELSE sync_pace

\* secrets = self._sync(self.last_sync); "if secrets is None: continue";
\* with no callback registered the for loop is empty and delay() follows
PaceSyncInc(is_null) ==
    /\ SyncInc(is_null)
    /\ sync_pace' = IF ~is_null /\ sync_callbacks = <<>>
                    THEN delay_called(sync_called(sync_pace))
                    ELSE sync_called(sync_pace)

\* the callbacks of sync_callbacks, then delay()
PaceSyncIncDeliver ==
    /\ SyncIncDeliver
    /\ sync_pace' = IF sync_thread'.pc = "copy"
                    THEN delay_called(sync_pace) ELSE sync_pace

\* self.client.sync raises inside _sync: nothing in _sync or _sync_loop
\* catches it, the thread ends
SyncRaises ==
    /\ sync_thread.pc \in {"full_sync", "inc_sync"}
    /\ sync_thread' = [pc |-> "dead", k |-> 0]
    /\ sync_pace' = sync_called(sync_pace)
    /\ UNCHANGED <<chain_len, read_stages, bws_req, bws_last, sync_callbacks,
                   sync_all, new_callbacks, full_delivered, sync_last>>

paceFrame == UNCHANGED <<cacheVars, now, concVars, rlVars, genVars, parseVars,
                         chainVars, buildVars, dispatchVars, limiterVars,
                         clientVars, kvVars, tokenVars, raceVars, loaderVars>>

PaceInit == BwsInit

\* the steps of the sync thread
PaceThread ==
    \/ PaceSyncCopy /\ paceFrame
    \/ PaceSyncReset /\ paceFrame
    \/ \E is_null \in BOOLEAN : PaceSyncFull(is_null) /\ paceFrame
    \/ PaceSyncFullDeliver /\ paceFrame
    \/ \E is_null \in BOOLEAN : PaceSyncInc(is_null) /\ paceFrame
    \/ PaceSyncIncDeliver /\ paceFrame
    \/ SyncRaises /\ paceFrame

PaceNext ==
    \/ \E i \in read_stages, op \in BwsOps, exc \in ClientErrors :
          PaceGetClientRaises(i, op, exc) /\ paceFrame
    \/ \E i \in read_stages, op \in BwsOps : PaceGetClient(i, op) /\ paceFrame
    \/ PaceEnsureCallback /\ paceFrame
    \/ \E outcome \in LookupOutcomes, answer \in DownAnswers :
          PaceLookup(outcome, answer) /\ paceFrame
    \/ PaceThread

SpecPace == PaceInit /\ [][PaceNext]_vars

\* the sync thread, once started, is scheduled again and again
SpecPaceFair == SpecPace /\ WF_vars(PaceThread)

\* C35: between any two consecutive upstream sync calls of the sync loop the
\* loop has executed sync_rate_limiter.delay() at least once, also after a
\* pass whose sync returned a null payload: every sync call finds a delay()
\* executed since the sync call before it.
C35_SyncLoopPacing == sync_pace.paced

\* C36: once the sync thread has started it keeps issuing incremental
\* syncs: from every state with a started thread the loop comes again to
\* its incremental self._sync(self.last_sync) call.
C36_SyncLoopNeverStops ==
    (sync_thread.pc # "not_started") ~> (sync_thread.pc = "inc_sync")

-----------------------------------------------------------------------------
(* Part XIII: kv_translater of one BwsClient.  The sync thread runs _sync, *)
(* a request thread runs get_by_key; dict.clear, one dict assignment and   *)
(* one dict.get are each one step.                                         *)

\* what an upstream sync returns: a null payload (secrets is None) or a list
\* of secrets, each with an id and a key
SyncedSecrets == [id : Ids, key : Keys]
SyncPayloads ==
    {[is_null |-> TRUE, secrets |-> <<>>]} \cup
    {[is_null |-> FALSE, secrets |-> l] :
        l \in UNION {[1..n -> SyncedSecrets] : n \in 0..MaxSecrets}}

\* the dict built by "for secret in secrets.secrets:
\* self.kv_translater[secret.key] = secret.id" from an empty dict
kv_of(secrets) ==
    [key \in Keys |->
        LET at == {i \in DOMAIN secrets : secrets[i].key = key} IN
        IF at = {} THEN ""
        ELSE secrets[CHOOSE i \in at : \A j \in at : j <= i].id]

\* _sync up to "with self.kv_lock": a null payload returns None; otherwise
\* id_rate_limiter loses the stale ids and gains the new ones
KvSync(payload) ==
    /\ kv_sync.pc = "idle"
    /\ IF payload.is_null
       THEN UNCHANGED <<id_rate_limiter, kv_sync>>
       ELSE LET new_secret_ids == {payload.secrets[i].id : i \in DOMAIN payload.secrets}
                old_secret_ids == id_rate_limiter
                stale_secret_ids == old_secret_ids \ new_secret_ids
                secret_ids == new_secret_ids \ old_secret_ids
            IN  /\ id_rate_limiter' = (id_rate_limiter \ stale_secret_ids) \cup secret_ids
                /\ kv_sync' = [pc |-> "clear", secrets |-> payload.secrets, i |-> 0,
                               before |-> kv_translater]
    /\ UNCHANGED <<kv_translater, kv_last>>

\* _sync: self.kv_translater.clear(), under kv_lock
KvClear ==
    /\ kv_sync.pc = "clear"
    /\ kv_translater' = KvEmpty
    /\ kv_sync' = IF kv_sync.secrets = <<>> THEN KvSyncIdle
                  ELSE [kv_sync EXCEPT !.pc = "fill", !.i = 1]
    /\ UNCHANGED <<id_rate_limiter, kv_last>>

\* _sync: self.kv_translater[secret.key] = secret.id for the next secret,
\* under kv_lock; after the last one the lock is released and _sync returns
KvFill ==
    /\ kv_sync.pc = "fill"
    /\ kv_translater' = [kv_translater EXCEPT
                            ![kv_sync.secrets[kv_sync.i].key] = kv_sync.secrets[kv_sync.i].id]
    /\ kv_sync' = IF kv_sync.i < Len(kv_sync.secrets)
                  THEN [kv_sync EXCEPT !.i = kv_sync.i + 1]
                  ELSE KvSyncIdle
    /\ UNCHANGED <<id_rate_limiter, kv_last>>

\* get_by_key(key): secret_id = self.kv_translater.get(key), taken without
\* kv_lock; an absent key returns None, a present one goes on to
\* get_by_id(secret_id), which enters the id in id_rate_limiter when the
\* upstream knows the secret
KvGetByKey(key, found) ==
    LET secret_id == kv_translater[key]
        rebuilding == kv_sync.pc # "idle"
    IN  /\ kv_last' = [key |-> key, secret_id |-> secret_id, rebuilding |-> rebuilding,
                       before |-> IF rebuilding THEN kv_sync.before[key]
                                  ELSE kv_translater[key],
                       after |-> IF rebuilding THEN kv_of(kv_sync.secrets)[key]
                                 ELSE kv_translater[key]]
        /\ id_rate_limiter' = IF secret_id # "" /\ found
                              THEN id_rate_limiter \cup {secret_id}
                              ELSE id_rate_limiter
        /\ UNCHANGED <<kv_translater, kv_sync>>

kvFrame == UNCHANGED <<earlyVars, clientVars, paceVars, tokenVars, raceVars, loaderVars>>

KvInit == EarlyAtRest /\ LateAtRest

KvNext ==
    \/ \E payload \in SyncPayloads : KvSync(payload) /\ kvFrame
    \/ KvClear /\ kvFrame
    \/ KvFill /\ kvFrame
    \/ \E key \in Keys, found \in BOOLEAN : KvGetByKey(key, found) /\ kvFrame

SpecKv == KvInit /\ [][KvNext]_vars

\* C37: kv_translater is never observed half rebuilt: a get_by_key(key)
\* running while a sync rebuilds the mapping resolves the key to what the
\* mapping held before the sync or to what it holds after it; in particular
\* a key with an id both before and after is not reported as unknown.
C37_TranslaterNeverHalfRebuilt ==
    kv_last.key # "" => kv_last.secret_id \in {kv_last.before, kv_last.after}

-----------------------------------------------------------------------------
(* Part XIV: one cache stage, hence one CacheController, serving two       *)
(* tokens.  The secrets the upstream holds for a token carry that token in *)
(* their value, so that a secret tells whose it is.  The handlers are      *)
(* those of Part I, applied to the TokenCache of the request's token; the  *)
(* clock stands still.                                                     *)

Tokens == {"t1", "t2"}

\* hashlib.sha256(token.encode()).hexdigest(): the digests of the two tokens
sha256_hexdigest == [token \in Tokens |-> IF token = "t1" THEN "5a1e" ELSE "c07f"]

\* Token.from_token_id
from_token_id(token) == [token_id |-> sha256_hexdigest[token]]

\* the secrets of a token (two ids under one key), and what the next stage
\* may answer to a request carrying it
token_secrets ==
    [token \in Tokens |-> [key_id : Ids, key : {"k1"}, secret : {"of " \o token}]]
secrets_of(token) == token_secrets[token]
token_answers ==
    [token \in Tokens |->
        {Answer(s) : s \in secrets_of(token)}
            \cup {GsecretFailure(404), GsecretFailure(500)}]
TokenAnswers(token) == token_answers[token]
token_batches ==
    [token \in Tokens |->
        {b \in UNION {[1..n -> secrets_of(token)] : n \in 0..MaxBatch} :
            \A i, j \in DOMAIN b : b[i].key_id = b[j].key_id => i = j}]
TokenBatches(token) == token_batches[token]

\* get_token_cache looking every token up under one key
token_caches_key_shared(token_hash) == "shared"

\* get_token_cache: the key of token_caches it looks the token up under
token_caches_key(token_hash) == token_hash.token_id

\* get_token_cache: token_caches after the call, which creates the cache of a
\* token that has none; the cache returned is the one under the token's key
get_token_cache(caches, token_hash) ==
    IF token_caches_key(token_hash) \notin DOMAIN caches
    THEN Put(caches, token_caches_key(token_hash), EmptyCache)
    ELSE caches

\* the TokenCaches kept under the TokenIDs of the other tokens are in
\* `after` what they were in `before`
others_kept(before, after, token) ==
    \A other \in Tokens \ {token} :
        from_token_id(other).token_id \in DOMAIN before =>
            /\ from_token_id(other).token_id \in DOMAIN after
            /\ after[from_token_id(other).token_id] = before[from_token_id(other).token_id]

\* a handler ends: the TokenCache it worked on is stored back
TcEnd(op, token, caches, tc, result) ==
    /\ token_caches' = [caches EXCEPT ![token_caches_key(from_token_id(token))] = tc]
    /\ tc_last' = [op |-> op, token |-> token,
                   token_id |-> token_caches_key(from_token_id(token)),
                   result |-> result,
                   others_kept |-> others_kept(token_caches, token_caches', token)]

TcGetSecretId(token, key_id, answer) ==
    LET caches == get_token_cache(token_caches, from_token_id(token))
        r == cache_get_secret_id(caches[token_caches_key(from_token_id(token))], key_id,
                                 answer, ttl_seconds, invalidate_on_upstream_error, now)
    IN  TcEnd("get_secret_id", token, caches, r.cache, r.result)

TcGetSecretKey(token, key, answer) ==
    LET caches == get_token_cache(token_caches, from_token_id(token))
        r == cache_get_secret_key(caches[token_caches_key(from_token_id(token))], key,
                                  answer, ttl_seconds, invalidate_on_upstream_error, now)
    IN  TcEnd("get_secret_key", token, caches, r.cache, r.result)

\* write_secret: get_token_cache is called only when the next stage answered
\* a Secret
TcWriteSecret(token, answer) ==
    IF isSecret(answer)
    THEN LET caches == get_token_cache(token_caches, from_token_id(token)) IN
         TcEnd("write_secret", token, caches,
               cache_write_secret(caches[token_caches_key(from_token_id(token))],
                                  answer, now),
               cache_write_secret_result(TRUE, answer))
    ELSE /\ tc_last' = [op |-> "write_secret", token |-> token,
                        token_id |-> token_caches_key(from_token_id(token)),
                        result |-> cache_write_secret_result(TRUE, answer),
                        others_kept |-> TRUE]
         /\ UNCHANGED token_caches

\* secret_updated(secrets, token_hash, ...): a sync batch of the token's
\* client, which carries the TokenID
TcSecretUpdated(token, secrets) ==
    LET caches == get_token_cache(token_caches, from_token_id(token))
        tc == caches[token_caches_key(from_token_id(token))]
        stored == upsert_batch(tc, secrets, now)
    IN  \E id_order \in Orders(stale_ids_of(stored, secrets)),
           key_order \in Orders(stale_keys_of(stored, secrets)) :
          TcEnd("secret_updated", token, caches,
                cache_secret_updated(tc, secrets, now, id_order, key_order),
                GsecretFailure(0))

tokenFrame == UNCHANGED <<earlyVars, clientVars, paceVars, kvVars, raceVars, loaderVars>>

TokenInit == EarlyAtRest /\ LateAtRest

TokenNext ==
    \/ \E token \in Tokens, key_id \in Ids : \E answer \in TokenAnswers(token) :
          TcGetSecretId(token, key_id, answer) /\ tokenFrame
    \/ \E token \in Tokens, key \in Keys : \E answer \in TokenAnswers(token) :
          TcGetSecretKey(token, key, answer) /\ tokenFrame
    \/ \E token \in Tokens : \E answer \in TokenAnswers(token) :
          TcWriteSecret(token, answer) /\ tokenFrame
    \/ \E token \in Tokens : \E secrets \in TokenBatches(token) :
          TcSecretUpdated(token, secrets) /\ tokenFrame

SpecToken == TokenInit /\ [][TokenNext]_vars

\* the secrets a TokenCache holds
cached_secrets(tc) ==
    {tc.id_cache[x].secret : x \in DOMAIN tc.id_cache}
        \cup {tc.key_cache[x].secret : x \in DOMAIN tc.key_cache}

\* C38: per-token isolation in the cache: a read, write or sync update for
\* TokenID t leaves the cache entries of every other TokenID as they were;
\* the TokenCache of a token holds secrets of that token only and a request
\* is answered with a secret of its own token only; all requests with one
\* token work on the one TokenCache kept under its TokenID.
C38_PerTokenIsolation ==
    /\ \A token \in Tokens :
          from_token_id(token).token_id \in DOMAIN token_caches =>
              cached_secrets(token_caches[from_token_id(token).token_id])
                  \subseteq secrets_of(token)
    /\ DOMAIN token_caches \subseteq {from_token_id(token).token_id : token \in Tokens}
    /\ isSecret(tc_last.result) => tc_last.result.secret \in secrets_of(tc_last.token)
    /\ tc_last.others_kept

\* C38 happens: both tokens have the secret with id "a" cached, each its
\* own, and a read with t2 was answered from the cache
C38_Witness ==
    /\ \A token \in Tokens :
          /\ from_token_id(token).token_id \in DOMAIN token_caches
          /\ "a" \in DOMAIN token_caches[from_token_id(token).token_id].id_cache
    /\ tc_last.op = "get_secret_id" /\ tc_last.token = "t2"
    /\ isSecret(tc_last.result)
    /\ tc_last.result = Answer(token_caches[tc_last.token_id].id_cache["a"].secret)

-----------------------------------------------------------------------------
(* Part XV: one secret, id "a" under key "k1", whose value the upstream    *)
(* changes from version to version.  A request thread reads it through the *)
(* cache stage: lookup, call of the next stage, store of the answer; the   *)
(* sync thread delivers secret_updated batches holding the upstream's      *)
(* present value.  secret_updated is taken in one step.                    *)

\* the secret at version n
versioned(n) == [key_id |-> "a", key |-> "k1", secret |-> n]

RaceOps == {"get_secret_id", "get_secret_key"}

\* get_secret_id / get_secret_key, the lookup: a hit returns the cached
\* secret, a miss goes on to the next stage
RaceLookup(op) ==
    LET got == IF op = "get_secret_id"
               THEN get_by_id(race_cache, "a", ttl_seconds, now)
               ELSE get_by_key(race_cache, "k1", ttl_seconds, now)
    IN  /\ race_reader.pc = "idle"
        /\ race_cache' = got.cache
        /\ IF got.found
           THEN /\ race_last' = [race_last EXCEPT !.hit_value = got.secret.secret]
                /\ UNCHANGED race_reader
           ELSE /\ race_reader' = [RaceReaderIdle EXCEPT !.pc = "call", !.op = op]
                /\ UNCHANGED race_last
        /\ UNCHANGED upstream_value

\* result = executor.get_secret_id(...) / get_secret_key(...): the next stage
\* answers with the upstream's present value, or fails
RaceCallNext(failure) ==
    /\ race_reader.pc = "call"
    /\ race_reader' = [race_reader EXCEPT !.pc = "store",
                          !.answer = IF failure = 0 THEN Answer(versioned(upstream_value))
                                     ELSE GsecretFailure(failure)]
    /\ UNCHANGED <<upstream_value, race_cache, race_last>>

\* the rest of the handler: the answer is stored, or the entry invalidated
RaceStore ==
    LET answer == race_reader.answer IN
    /\ race_reader.pc = "store"
    /\ race_cache' =
          IF isSecret(answer)
          THEN update_by_key(race_cache, answer.secret, answer.secret.key, now)
          ELSE IF answer.code = 404 \/ invalidate_on_upstream_error
          THEN IF race_reader.op = "get_secret_id"
               THEN invalidate_by_id(race_cache, "a")
               ELSE invalidate_by_key(race_cache, "k1")
          ELSE race_cache
    /\ race_reader' = RaceReaderIdle
    /\ UNCHANGED <<upstream_value, race_last>>

\* the secret's value changes upstream
UpstreamChange ==
    /\ upstream_value < MaxVersion
    /\ upstream_value' = upstream_value + 1
    /\ UNCHANGED <<race_cache, race_reader, race_last>>

\* secret_updated with the batch of a sync, which holds the secret at the
\* upstream's present value
RaceSecretUpdated ==
    LET secrets == <<versioned(upstream_value)>>
        stored == upsert_batch(race_cache, secrets, now)
    IN  \E id_order \in Orders(stale_ids_of(stored, secrets)),
           key_order \in Orders(stale_keys_of(stored, secrets)) :
          /\ race_cache' = cache_secret_updated(race_cache, secrets, now,
                                                id_order, key_order)
          /\ race_last' = [batch_value |-> upstream_value, hit_value |-> 0]
          /\ UNCHANGED <<upstream_value, race_reader>>

raceFrame == UNCHANGED <<earlyVars, clientVars, paceVars, kvVars, tokenVars, loaderVars>>

RaceInit == EarlyAtRest /\ LateAtRest

RaceNext ==
    \/ \E op \in RaceOps : RaceLookup(op) /\ raceFrame
    \/ \E failure \in {0, 404, 500} : RaceCallNext(failure) /\ raceFrame
    \/ RaceStore /\ raceFrame
    \/ UpstreamChange /\ raceFrame
    \/ RaceSecretUpdated /\ raceFrame

SpecRace == RaceInit /\ [][RaceNext]_vars

\* C39: no stale overwrite after a sync update: once secret_updated with a
\* batch holding the secret has completed and no later update or write for
\* the secret occurred, every cache hit for the secret returns the value of
\* that batch, also when a read that missed and called the next stage before
\* the update stores its answer after it.
C39_NoStaleOverwriteAfterSync ==
    (race_last.batch_value # 0 /\ race_last.hit_value # 0)
        => race_last.hit_value = race_last.batch_value

-----------------------------------------------------------------------------
(* Part XVI: the configuration document and what load_stages builds from   *)
(* it.  A document is the list of its chain entries (api, name, steps),    *)
(* a step a stage name with a config; the api is "gsecret", whose plugin   *)
(* knows every stage name used here.  A dict is a function on its keys.    *)

StepConfigs == {"cfg1", "cfg2"}
ChainSteps == [name : {"cache", "generator"}, config : StepConfigs]
StepLists == UNION {[1..j -> ChainSteps] : j \in 0..MaxSteps}

\* the documents: at most MaxChains chain entries with distinct names
YamlDocs ==
    {<<>>}
    \cup {<<[api |-> "gsecret", name |-> n1, steps |-> s1]>> :
            n1 \in ChainNames, s1 \in StepLists}
    \cup {<<[api |-> "gsecret", name |-> n[1], steps |-> s1],
            [api |-> "gsecret", name |-> n[2], steps |-> s2]>> :
            n \in {m \in ChainNames \X ChainNames : m[1] # m[2] /\ MaxChains >= 2},
            s1 \in StepLists, s2 \in StepLists}

\* d.get(k, default)
dict_get(d, k, default) == IF k \in DOMAIN d THEN d[k] ELSE default

\* from_yaml, "if x not in d: d[x] = empty" for the api and the chain name
with_chain(d, api, name, empty) ==
    LET d1 == IF api \notin DOMAIN d THEN Put(d, api, <<>>) ELSE d IN
    IF name \notin DOMAIN d1[api]
    THEN [d1 EXCEPT ![api] = Put(d1[api], name, empty)]
    ELSE d1

\* from_yaml, the loop over chain_cfg.steps
RECURSIVE from_yaml_steps(_, _, _)
from_yaml_steps(maps, chain_cfg, steps) ==
    IF steps = <<>> THEN maps
    ELSE LET step == Head(steps)
             api == chain_cfg.api
             name == chain_cfg.name
         IN  from_yaml_steps(
                [chain_stage_map |->
                    [maps.chain_stage_map EXCEPT
                        ![api][name] = Append(maps.chain_stage_map[api][name], step.name)],
                 stage_cfg_map |->
                    [maps.stage_cfg_map EXCEPT
                        ![api][name] = Put(maps.stage_cfg_map[api][name],
                                           step.name, step.config)]],
                chain_cfg, Tail(steps))

\* from_yaml, the loop over root_cfg.chains
RECURSIVE from_yaml_chains(_, _)
from_yaml_chains(maps, chains) ==
    IF chains = <<>> THEN maps
    ELSE LET chain_cfg == Head(chains) IN
         from_yaml_chains(
            from_yaml_steps(
                [chain_stage_map |-> with_chain(maps.chain_stage_map, chain_cfg.api,
                                                chain_cfg.name, <<>>),
                 stage_cfg_map |-> with_chain(maps.stage_cfg_map, chain_cfg.api,
                                              chain_cfg.name, <<>>)],
                chain_cfg, chain_cfg.steps),
            Tail(chains))

from_yaml(doc) == from_yaml_chains(NotLoaded, doc)

\* LoadedConfig.chains, as a set: the order of the chains is not observed
config_chains(config, api) == DOMAIN dict_get(config.chain_stage_map, api, <<>>)

\* LoadedConfig.stages
config_stages(config, api, chain) ==
    dict_get(dict_get(config.chain_stage_map, api, <<>>), chain, <<>>)

\* LoadedConfig.stage_config; "None" is None
stage_config(config, api, chain, stage) ==
    dict_get(dict_get(dict_get(config.stage_cfg_map, api, <<>>), chain, <<>>),
             stage, "None")

\* stage_builder.build(stage_config, chain) of the builder registered under
\* stage_name: the instance knows its builder, its config and its chain
build_stage(stage_name, config, chain) ==
    [stage |-> stage_name, config |-> config, chain |-> chain]

\* load_stages, the loop over config.stages(api_name, chain_name)
load_chain(config, api, chain) ==
    [k \in DOMAIN config_stages(config, api, chain) |->
        build_stage(config_stages(config, api, chain)[k],
                    stage_config(config, api, chain, config_stages(config, api, chain)[k]),
                    chain)]

\* config = LoadedConfig.from_yaml(path)
FromYaml(doc) ==
    /\ loader_pc = "idle"
    /\ yaml_doc' = doc
    /\ loaded_config' = from_yaml(doc)
    /\ loader_pc' = "parsed"
    /\ UNCHANGED built_chains

\* ApiBuilder.load_stages(config), every api, chain and stage name known
LoadConfigured ==
    /\ loader_pc = "parsed"
    /\ built_chains' = [chain \in config_chains(loaded_config, "gsecret") |->
                           load_chain(loaded_config, "gsecret", chain)]
    /\ loader_pc' = "built"
    /\ UNCHANGED <<yaml_doc, loaded_config>>

loaderFrame == UNCHANGED <<earlyVars, clientVars, paceVars, kvVars, tokenVars, raceVars>>

LoaderInit == EarlyAtRest /\ LateAtRest

LoaderNext ==
    \/ \E doc \in YamlDocs : FromYaml(doc) /\ loaderFrame
    \/ LoadConfigured /\ loaderFrame

SpecLoader == LoaderInit /\ [][LoaderNext]_vars

\* C40: per-step configuration binding: for every chain of the document, the
\* i-th stage of the built chain is built with the config of the i-th step
\* of that chain, and stages(api, chain) lists the step names of the chain
\* entry in document order, also when a chain names one stage twice with
\* different configs.
C40_PerStepConfigBinding ==
    loader_pc = "built" =>
        \A c \in DOMAIN yaml_doc :
            LET chain_cfg == yaml_doc[c] IN
            /\ config_stages(loaded_config, chain_cfg.api, chain_cfg.name)
                  = [i \in DOMAIN chain_cfg.steps |-> chain_cfg.steps[i].name]
            /\ chain_cfg.name \in DOMAIN built_chains
            /\ DOMAIN built_chains[chain_cfg.name] = DOMAIN chain_cfg.steps
            /\ \A i \in DOMAIN chain_cfg.steps :
                  /\ built_chains[chain_cfg.name][i].stage = chain_cfg.steps[i].name
                  /\ built_chains[chain_cfg.name][i].config = chain_cfg.steps[i].config

====
